---- MODULE Spec2Model ----
(***************************************************************************)
(* Budget-allocation and transaction-ledger engine of BudgetTracker        *)
(* (backend/services/budget_service.py, transaction_service.py).           *)
(*                                                                         *)
(* The store is the three tables pay_periods, budget_categories and        *)
(* transactions.  Money is counted in cents (the columns are               *)
(* Numeric(10, 2)); dates are Python date values (year, month, day).       *)
(* Every request runs in its own AsyncSession: a session is the pair of    *)
(* the durable store and the session's pending view of it; commit makes    *)
(* the pending view durable, rollback discards it.  Columns no operation   *)
(* of the services reads back (created_at, updated_at, transaction_date)   *)
(* are left out of the rows.                                               *)
(*                                                                         *)
(* The engine of the default database URL (SQLite) is created with         *)
(* poolclass=StaticPool: every session works on the one connection of the  *)
(* pool.  connection is the uncommitted work on that connection, sessions  *)
(* the position of each request that is under way; the requests of the     *)
(* serialized specifications run from their first statement to their last  *)
(* and leave both as they were.                                            *)
(***************************************************************************)
EXTENDS Integers, Sequences, FiniteSets, TLC

VARIABLES pay_periods, budget_categories, transactions, last, sessions,
          connection

vars == <<pay_periods, budget_categories, transactions, last, sessions,
          connection>>

(***************************************************************************)
(* Bounds of the model.                                                    *)
(***************************************************************************)
MaxPayPeriods == 2
MaxCategories == 2
MaxTransactions == 2
MaxListedPeriods == 3

Users == {1, 2}

\* the requests that can be under way at the same time
Workers == {1, 2}

\* Optional[T]: None is the empty sequence, a supplied value v is <<v>>
None == <<>>
Some(v) == <<v>>

(***************************************************************************)
(* datetime.date and timedelta arithmetic.                                 *)
(***************************************************************************)
Date(y, m, d) == [year |-> y, month |-> m, day |-> d]

\* the first day the model's ordinals count from
Epoch == Date(2024, 1, 1)

IsLeap(y) == (y % 4 = 0) /\ ((y % 100 # 0) \/ (y % 400 = 0))

DaysInMonth(y, m) ==
    IF m = 2 THEN (IF IsLeap(y) THEN 29 ELSE 28)
    ELSE IF m \in {4, 6, 9, 11} THEN 30 ELSE 31

DaysInYear(y) == IF IsLeap(y) THEN 366 ELSE 365

RECURSIVE DaysBeforeYear(_)
DaysBeforeYear(y) ==
    IF y <= Epoch.year THEN 0 ELSE DaysBeforeYear(y - 1) + DaysInYear(y - 1)

RECURSIVE DaysBeforeMonth(_, _)
DaysBeforeMonth(y, m) ==
    IF m <= 1 THEN 0 ELSE DaysBeforeMonth(y, m - 1) + DaysInMonth(y, m - 1)

\* date.toordinal(), counted from Epoch
ToOrdinal(dt) == DaysBeforeYear(dt.year) + DaysBeforeMonth(dt.year, dt.month) + dt.day

RECURSIVE OrdToDate(_, _, _)
OrdToDate(y, m, n) ==
    IF m = 0
    THEN (IF n > DaysInYear(y) THEN OrdToDate(y + 1, 0, n - DaysInYear(y))
          ELSE OrdToDate(y, 1, n))
    ELSE (IF n > DaysInMonth(y, m) THEN OrdToDate(y, m + 1, n - DaysInMonth(y, m))
          ELSE Date(y, m, n))

\* date.fromordinal()
FromOrdinal(n) == OrdToDate(Epoch.year, 0, n)

\* date + timedelta(days = k), date - timedelta(days = k) for negative k
AddDays(dt, k) == FromOrdinal(ToOrdinal(dt) + k)

\* date <= date
DateLE(a, b) == ToOrdinal(a) <= ToOrdinal(b)

(***************************************************************************)
(* BudgetService.calculate_end_date                                        *)
(***************************************************************************)
\* mutant: a monthly period lasts thirty days after its start
calculate_end_date_ThirtyDays(start_date, frequency) ==
    IF frequency = "weekly" THEN AddDays(start_date, 6)
    ELSE IF frequency = "monthly" THEN AddDays(start_date, 30)
    ELSE AddDays(start_date, 13)

calculate_end_date(start_date, frequency) ==
    IF frequency = "weekly" THEN AddDays(start_date, 6)
    ELSE IF frequency = "bi_weekly" THEN AddDays(start_date, 13)
    ELSE IF frequency = "monthly"
         THEN LET next_month ==
                      IF start_date.month = 12
                      THEN Date(start_date.year + 1, 1, 1)
                      ELSE Date(start_date.year, start_date.month + 1, 1)
              IN  AddDays(next_month, -1)
    ELSE AddDays(start_date, 13)

(***************************************************************************)
(* The store and the session of one request.                               *)
(***************************************************************************)
EmptyStore ==
    [pay_periods |-> <<>>, budget_categories |-> <<>>, transactions |-> <<>>]

Store == [pay_periods |-> pay_periods,
          budget_categories |-> budget_categories,
          transactions |-> transactions]

\* async_session_maker(): a session opened on the durable store
OpenSession(db) == [durable |-> db, pending |-> db]

\* db.commit()
Commit(s) == [durable |-> s.pending, pending |-> s.pending]

\* db.rollback()
Rollback(s) == [durable |-> s.durable, pending |-> s.durable]

\* ids of the live rows of the transactions table
TransactionIds(db) == DOMAIN db.transactions

SetMax(S) == IF S = {} THEN 0 ELSE CHOOSE x \in S : \A y \in S : y <= x

\* Integer primary key of a new transactions row (SQLite rowid: one above
\* the largest live id)
NewTransactionId(db) == SetMax(TransactionIds(db)) + 1

(***************************************************************************)
(* Rows.                                                                   *)
(***************************************************************************)
PayPeriod(user_id, start_date, end_date, frequency, total_income, status) ==
    [user_id |-> user_id, start_date |-> start_date, end_date |-> end_date,
     frequency |-> frequency, total_income |-> total_income, status |-> status]

BudgetCategory(pay_period_id, name, allocated_amount, remaining_amount) ==
    [pay_period_id |-> pay_period_id, name |-> name,
     allocated_amount |-> allocated_amount,
     remaining_amount |-> remaining_amount]

Transaction(pay_period_id, budget_category_id, amount, description, source) ==
    [pay_period_id |-> pay_period_id, budget_category_id |-> budget_category_id,
     amount |-> amount, description |-> description, source |-> source]

\* outcome of a service call: the session after it, how it ended ("ok" when
\* it returned, else the error it raised) and, as a record, the value it
\* returned or the detail of the error
Outcome(s, status, ret) == [s |-> s, status |-> status, ret |-> ret]

(***************************************************************************)
(* TransactionService                                                      *)
(***************************************************************************)

\* mutant: the category is looked up without the owner
OwnedCategoryIds_Any(db, user) == 1..Len(db.budget_categories)

\* select(BudgetCategory).join(PayPeriod).where(id == ..., user_id == ...)
OwnedCategoryIds(db, user) ==
    {c \in 1..Len(db.budget_categories) :
        db.pay_periods[db.budget_categories[c].pay_period_id].user_id = user}

\* mutant: the test refuses a transaction for the whole remaining amount
InsufficientBudget_Strict(remaining_amount, amount) == remaining_amount <= amount

\* the insufficient-budget test of create_transaction
InsufficientBudget(remaining_amount, amount) == remaining_amount < amount

\* mutant: the amount is deducted twice
DeductAmount_Twice(remaining_amount, amount) == remaining_amount - 2 * amount

\* budget_category.remaining_amount -= transaction_data.amount
DeductAmount(remaining_amount, amount) == remaining_amount - amount

create_transaction(s, user, transaction_data) ==
    LET db  == s.pending
        cid == transaction_data.budget_category_id
    IN  IF cid \notin OwnedCategoryIds(db, user)
        THEN Outcome(s, "not_found", [message |-> "Budget category not found"])
        ELSE LET budget_category == db.budget_categories[cid]
             IN  IF InsufficientBudget(budget_category.remaining_amount,
                                       transaction_data.amount)
                 THEN Outcome(s, "insufficient_budget",
                              [available |-> budget_category.remaining_amount,
                               requested |-> transaction_data.amount])
                 ELSE LET id == NewTransactionId(db)
                          db_transaction ==
                              Transaction(budget_category.pay_period_id, cid,
                                          transaction_data.amount,
                                          transaction_data.description,
                                          transaction_data.source)
                          pending ==
                              [db EXCEPT
                                 !.budget_categories[cid].remaining_amount =
                                     DeductAmount(@, transaction_data.amount),
                                 !.transactions = @ @@ (id :> db_transaction)]
                      IN  Outcome(Commit([s EXCEPT !.pending = pending]), "ok",
                                  [id |-> id])

\* mutant: the item keeps the source the caller gave it
MarkApiSource_Kept(transaction_data) == transaction_data

\* transaction_data.source = TransactionSource.API
MarkApiSource(transaction_data) == [transaction_data EXCEPT !.source = "api"]

\* the loop of bulk_create_transactions from item i on; created is the list
\* of the ids created so far
RECURSIVE bulk_loop(_, _, _, _, _)
bulk_loop(s, user, items, i, created) ==
    IF i > Len(items)
    THEN Outcome(s, "ok", [created |-> created])
    ELSE LET transaction_data == MarkApiSource(items[i])
             r == create_transaction(s, user, transaction_data)
         IN  IF r.status = "ok"
             THEN bulk_loop(r.s, user, items, i + 1, Append(created, r.ret.id))
             ELSE Outcome(Rollback(r.s), "bulk_failed",
                          [cause |-> r.status, detail |-> r.ret, item |-> i])

RECURSIVE Reversed(_)
Reversed(seq) ==
    IF seq = <<>> THEN <<>> ELSE Append(Reversed(Tail(seq)), Head(seq))

\* mutant: the items are processed last to first
bulk_create_transactions_Reversed(s, user, bulk_data) ==
    bulk_loop(s, user, Reversed(bulk_data), 1, <<>>)

bulk_create_transactions(s, user, bulk_data) ==
    bulk_loop(s, user, bulk_data, 1, <<>>)

\* mutant: the ownership join is left out of the query
OwnedTransactionIds_Any(db, user) == DOMAIN db.transactions

\* select(Transaction).join(PayPeriod).where(id == ..., user_id == ...)
OwnedTransactionIds(db, user) ==
    {t \in TransactionIds(db) :
        db.pay_periods[db.transactions[t].pay_period_id].user_id = user}

get_transaction_by_id(db, user, transaction_id) ==
    IF transaction_id \in OwnedTransactionIds(db, user)
    THEN Some(db.transactions[transaction_id]) ELSE None

\* mutant: the difference is taken the wrong way round
AmountDiff_Swapped(new_amount, old_amount) == old_amount - new_amount

\* amount_diff = update_data.amount - transaction.amount
AmountDiff(new_amount, old_amount) == new_amount - old_amount

\* mutant: an increase by the whole remaining amount is refused
InsufficientForIncrease_Strict(remaining_amount, amount_diff) ==
    amount_diff > 0 /\ remaining_amount <= amount_diff

\* the insufficient-budget test of update_transaction
InsufficientForIncrease(remaining_amount, amount_diff) ==
    amount_diff > 0 /\ remaining_amount < amount_diff

update_transaction(s, user, transaction_id, update_data) ==
    LET db == s.pending
    IN  IF get_transaction_by_id(db, user, transaction_id) = None
        THEN Outcome(s, "ok", [transaction |-> None])
        ELSE
        LET transaction == db.transactions[transaction_id]
            cid == transaction.budget_category_id
            has_category == cid \in 1..Len(db.budget_categories)
            amount_diff ==
                IF update_data.amount # None
                THEN AmountDiff(update_data.amount[1], transaction.amount) ELSE 0
        IN  IF /\ update_data.amount # None
               /\ has_category
               /\ InsufficientForIncrease(
                      db.budget_categories[cid].remaining_amount, amount_diff)
            THEN Outcome(s, "insufficient_budget",
                         [available |-> db.budget_categories[cid].remaining_amount])
            ELSE
            LET db1 == IF update_data.amount # None /\ has_category
                       THEN [db EXCEPT
                               !.budget_categories[cid].remaining_amount =
                                   @ - amount_diff,
                               !.transactions[transaction_id].amount =
                                   update_data.amount[1]]
                       ELSE db
                db2 == IF update_data.description # None
                       THEN [db1 EXCEPT
                               !.transactions[transaction_id].description =
                                   update_data.description[1]]
                       ELSE db1
            IN  Outcome(Commit([s EXCEPT !.pending = db2]), "ok",
                        [transaction |-> Some(transaction_id)])

\* mutant: the deletion forgets to credit the amount back
RestoreAmount_Forgotten(remaining_amount, amount) == remaining_amount

\* budget_category.remaining_amount += transaction.amount
RestoreAmount(remaining_amount, amount) == remaining_amount + amount

\* mutant: the row is not removed
DeleteRow_Kept(rows, id) == rows

\* db.delete(transaction)
DeleteRow(rows, id) == [t \in DOMAIN rows \ {id} |-> rows[t]]

delete_transaction(s, user, transaction_id) ==
    LET db == s.pending
    IN  IF get_transaction_by_id(db, user, transaction_id) = None
        THEN Outcome(s, "ok", [deleted |-> FALSE])
        ELSE
        LET transaction == db.transactions[transaction_id]
            cid == transaction.budget_category_id
            db1 == IF cid \in 1..Len(db.budget_categories)
                   THEN [db EXCEPT
                           !.budget_categories[cid].remaining_amount =
                               RestoreAmount(@, transaction.amount)]
                   ELSE db
            db2 == [db1 EXCEPT !.transactions = DeleteRow(@, transaction_id)]
        IN  Outcome(Commit([s EXCEPT !.pending = db2]), "ok", [deleted |-> TRUE])

\* get_user_transactions without limit and offset: the ids of the rows the
\* query selects (it orders them by transaction_date, a column the rows of
\* the model leave out); a filter of None or 0 is no filter
get_user_transactions(db, user, pay_period_id, category_id) ==
    {t \in OwnedTransactionIds(db, user) :
        /\ (pay_period_id # None /\ pay_period_id[1] # 0)
              => db.transactions[t].pay_period_id = pay_period_id[1]
        /\ (category_id # None /\ category_id[1] # 0)
              => db.transactions[t].budget_category_id = category_id[1]}

\* func.coalesce(func.sum(Transaction.amount), 0) over the rows ids
RECURSIVE SumTransactionAmounts(_, _)
SumTransactionAmounts(db, ids) ==
    IF ids = {} THEN 0
    ELSE LET t == CHOOSE x \in ids : TRUE
         IN  db.transactions[t].amount + SumTransactionAmounts(db, ids \ {t})

\* the rows of transactions joined to category c
CategoryTransactionIds(db, c) ==
    {t \in TransactionIds(db) : db.transactions[t].budget_category_id = c}

\* the categories of a pay period, in id order
RECURSIVE PeriodCategoryIds(_, _, _)
PeriodCategoryIds(db, pay_period_id, c) ==
    IF c > Len(db.budget_categories) THEN <<>>
    ELSE (IF db.budget_categories[c].pay_period_id = pay_period_id
          THEN <<c>> ELSE <<>>) \o PeriodCategoryIds(db, pay_period_id, c + 1)

get_spending_summary(db, user, pay_period_id) ==
    IF ~(/\ pay_period_id \in 1..Len(db.pay_periods)
         /\ db.pay_periods[pay_period_id].user_id = user)
    THEN <<>>
    ELSE LET ids == PeriodCategoryIds(db, pay_period_id, 1)
         IN  [i \in 1..Len(ids) |->
                LET c == ids[i]
                    total_spent ==
                        SumTransactionAmounts(db, CategoryTransactionIds(db, c))
                IN  [category_id |-> c,
                     category_name |-> db.budget_categories[c].name,
                     allocated_amount |-> db.budget_categories[c].allocated_amount,
                     total_spent |-> total_spent,
                     remaining_amount |->
                         db.budget_categories[c].allocated_amount - total_spent,
                     transaction_count |->
                         Cardinality(CategoryTransactionIds(db, c))]]

\* the ids of the pay periods of user
UserPeriodIds(db, user) ==
    {p \in 1..Len(db.pay_periods) : db.pay_periods[p].user_id = user}

RECURSIVE SumIncome(_, _)
SumIncome(db, ids) ==
    IF ids = {} THEN 0
    ELSE LET p == CHOOSE x \in ids : TRUE
         IN  db.pay_periods[p].total_income + SumIncome(db, ids \ {p})

\* the groups of the top-categories query: one per category name that has
\* a transaction of user, with the sum of the amounts
SpendingByName(db, user) ==
    LET names == {db.budget_categories[db.transactions[t].budget_category_id].name :
                     t \in OwnedTransactionIds(db, user)}
    IN  {[category |-> n,
          total_spent |->
              SumTransactionAmounts(db,
                  {t \in OwnedTransactionIds(db, user) :
                      db.budget_categories[
                          db.transactions[t].budget_category_id].name = n})] :
         n \in names}

\* get_spending_analytics; the average is the exact quotient num / den, and
\* top_categories the groups that fewer than five groups outspend
get_spending_analytics(db, user) ==
    LET period_count == Cardinality(UserPeriodIds(db, user))
        total_spent == SumTransactionAmounts(db, OwnedTransactionIds(db, user))
        groups == SpendingByName(db, user)
    IN  [total_periods |-> period_count,
         total_income |-> SumIncome(db, UserPeriodIds(db, user)),
         total_spent |-> total_spent,
         average_spending_per_period |->
             IF period_count > 0
             THEN [num |-> total_spent, den |-> period_count]
             ELSE [num |-> 0, den |-> 1],
         top_categories |->
             {g \in groups :
                 Cardinality({h \in groups : h.total_spent > g.total_spent}) < 5}]

(***************************************************************************)
(* BudgetService                                                           *)
(***************************************************************************)

\* mutant: the overlap query finds nothing
OverlappingPeriodIds_None(db, user, start_date, end_date) == {}

\* the overlap query of create_pay_period
OverlappingPeriodIds(db, user, start_date, end_date) ==
    {p \in 1..Len(db.pay_periods) :
        /\ db.pay_periods[p].user_id = user
        /\ db.pay_periods[p].status = "active"
        /\ DateLE(db.pay_periods[p].start_date, end_date)
        /\ DateLE(start_date, db.pay_periods[p].end_date)}

\* mutant: a new category starts with nothing left to spend
InitialRemaining_Zero(allocated_amount) == 0

\* remaining_amount=category_data.allocated_amount
InitialRemaining(allocated_amount) == allocated_amount

_create_budget_category(s, pay_period_id, category_data) ==
    LET db_category == BudgetCategory(pay_period_id, category_data.name,
                                      category_data.allocated_amount,
                                      InitialRemaining(
                                          category_data.allocated_amount))
        pending == [s.pending EXCEPT !.budget_categories = Append(@, db_category)]
    IN  Outcome(Commit([s EXCEPT !.pending = pending]), "ok",
                [id |-> Len(pending.budget_categories)])

\* "for category_data in ...: await _create_budget_category(...)" from item i
RECURSIVE create_categories(_, _, _, _, _)
create_categories(s, pay_period_id, categories, i, created) ==
    IF i > Len(categories)
    THEN Outcome(s, "ok", [created |-> created])
    ELSE LET r == _create_budget_category(s, pay_period_id, categories[i])
         IN  create_categories(r.s, pay_period_id, categories, i + 1,
                               Append(created, r.ret.id))

create_pay_period(s, user, pay_period_data) ==
    LET end_date == calculate_end_date(pay_period_data.start_date,
                                       pay_period_data.frequency)
        overlapping == OverlappingPeriodIds(s.pending, user,
                                            pay_period_data.start_date, end_date)
    IN  IF Cardinality(overlapping) > 1
        THEN \* scalar_one_or_none() raises MultipleResultsFound
             Outcome(s, "multiple_results_found",
                     [message |-> "MultipleResultsFound"])
        ELSE IF overlapping # {}
        THEN Outcome(s, "overlap",
                     [message |-> "Pay period overlaps with existing active period"])
        ELSE
        LET db_pay_period == PayPeriod(user, pay_period_data.start_date, end_date,
                                       pay_period_data.frequency,
                                       pay_period_data.total_income, "active")
            pending == [s.pending EXCEPT !.pay_periods = Append(@, db_pay_period)]
            s1 == Commit([s EXCEPT !.pending = pending])
            id == Len(pending.pay_periods)
            r  == create_categories(s1, id, pay_period_data.budget_categories,
                                    1, <<>>)
        IN  Outcome(r.s, "ok", [id |-> id])

get_pay_period_by_id(db, user, pay_period_id) ==
    IF /\ pay_period_id \in 1..Len(db.pay_periods)
       /\ db.pay_periods[pay_period_id].user_id = user
    THEN Some(db.pay_periods[pay_period_id]) ELSE None

\* mutant: the rows come oldest first
FirstByStartDesc_Ascending(db, ids) ==
    CHOOSE p \in ids :
        \A q \in ids :
            \/ ToOrdinal(db.pay_periods[p].start_date)
                   < ToOrdinal(db.pay_periods[q].start_date)
            \/ /\ db.pay_periods[p].start_date = db.pay_periods[q].start_date
               /\ p <= q

\* the next row of ORDER BY start_date DESC among ids (rows that start on
\* the same day come in id order)
FirstByStartDesc(db, ids) ==
    CHOOSE p \in ids :
        \A q \in ids :
            \/ ToOrdinal(db.pay_periods[p].start_date)
                   > ToOrdinal(db.pay_periods[q].start_date)
            \/ /\ db.pay_periods[p].start_date = db.pay_periods[q].start_date
               /\ p <= q

RECURSIVE OrderByStartDesc(_, _)
OrderByStartDesc(db, ids) ==
    IF ids = {} THEN <<>>
    ELSE LET p == FirstByStartDesc(db, ids)
         IN  <<p>> \o OrderByStartDesc(db, ids \ {p})

\* get_user_pay_periods: the ids of the selected periods, in result order
get_user_pay_periods(db, user, status_filter) ==
    OrderByStartDesc(db,
        {p \in 1..Len(db.pay_periods) :
            /\ db.pay_periods[p].user_id = user
            /\ status_filter # None => db.pay_periods[p].status = status_filter[1]})

\* "total += row[field]" over the first n rows
RECURSIVE TotalOf(_, _, _)
TotalOf(rows, field, n) ==
    IF n = 0 THEN 0 ELSE rows[n][field] + TotalOf(rows, field, n - 1)

\* mutant: the remaining of a category is read from its stored column
SummaryRemaining_Stored(category, spent) == category.remaining_amount

\* "remaining": category.allocated_amount - spent
SummaryRemaining(category, spent) == category.allocated_amount - spent

get_period_summary(db, user, pay_period_id) ==
    IF get_pay_period_by_id(db, user, pay_period_id) = None
    THEN None
    ELSE LET ids == PeriodCategoryIds(db, pay_period_id, 1)
             category_summaries ==
                 [i \in 1..Len(ids) |->
                    LET c == ids[i]
                        spent == SumTransactionAmounts(
                                     db, CategoryTransactionIds(db, c))
                    IN  [category |-> [id |-> c,
                                       remaining_amount |->
                                           db.budget_categories[c].remaining_amount],
                         allocated |-> db.budget_categories[c].allocated_amount,
                         spent |-> spent,
                         remaining |->
                             SummaryRemaining(db.budget_categories[c], spent)]]
             total_allocated ==
                 TotalOf(category_summaries, "allocated", Len(ids))
             total_spent == TotalOf(category_summaries, "spent", Len(ids))
         IN  Some([pay_period |-> pay_period_id,
                   total_allocated |-> total_allocated,
                   total_spent |-> total_spent,
                   total_remaining |-> total_allocated - total_spent,
                   categories_summary |-> category_summaries])

\* mutant: the status and the income are written to every period of the user
update_pay_period_AllPeriods(s, user, pay_period_id, update_data) ==
    IF get_pay_period_by_id(s.pending, user, pay_period_id) = None
    THEN Outcome(s, "ok", [pay_period |-> None])
    ELSE
    LET db == [s.pending EXCEPT !.pay_periods =
                 [p \in 1..Len(@) |->
                    IF @[p].user_id # user THEN @[p]
                    ELSE [@[p] EXCEPT
                            !.status = IF update_data.status # None
                                       THEN update_data.status[1] ELSE @,
                            !.total_income = IF update_data.total_income # None
                                             THEN update_data.total_income[1]
                                             ELSE @]]]
    IN  Outcome(Commit([s EXCEPT !.pending = db]), "ok",
                [pay_period |-> Some(pay_period_id)])

update_pay_period(s, user, pay_period_id, update_data) ==
    IF get_pay_period_by_id(s.pending, user, pay_period_id) = None
    THEN Outcome(s, "ok", [pay_period |-> None])
    ELSE
    LET db1 == IF update_data.status # None
               THEN [s.pending EXCEPT
                       !.pay_periods[pay_period_id].status = update_data.status[1]]
               ELSE s.pending
        db2 == IF update_data.total_income # None
               THEN [db1 EXCEPT
                       !.pay_periods[pay_period_id].total_income =
                           update_data.total_income[1]]
               ELSE db1
    IN  Outcome(Commit([s EXCEPT !.pending = db2]), "ok",
                [pay_period |-> Some(pay_period_id)])

RECURSIVE SumAllocated(_)
SumAllocated(allocations) ==
    IF allocations = <<>> THEN 0
    ELSE Head(allocations).allocated_amount + SumAllocated(Tail(allocations))

\* mutant: a batch that uses the whole income is refused
ExceedsIncome_Strict(total_allocation, total_income) ==
    total_allocation >= total_income

\* the over-allocation test of allocate_budget
ExceedsIncome(total_allocation, total_income) == total_allocation > total_income

\* the allocated_amount of the categories c..Len of period pay_period_id
RECURSIVE ExistingAllocation(_, _, _)
ExistingAllocation(db, pay_period_id, c) ==
    IF c > Len(db.budget_categories) THEN 0
    ELSE (IF db.budget_categories[c].pay_period_id = pay_period_id
          THEN db.budget_categories[c].allocated_amount ELSE 0)
         + ExistingAllocation(db, pay_period_id, c + 1)

\* mutant: the categories the period already has count in the total
TotalAllocation_WithExisting(db, allocation_request) ==
    SumAllocated(allocation_request.allocations)
        + ExistingAllocation(db, allocation_request.pay_period_id, 1)

\* total_allocation = sum(allocation.allocated_amount for allocation in
\* allocation_request.allocations)
TotalAllocation(db, allocation_request) ==
    SumAllocated(allocation_request.allocations)

allocate_budget(s, user, allocation_request) ==
    IF get_pay_period_by_id(s.pending, user, allocation_request.pay_period_id) = None
    THEN Outcome(s, "not_found", [message |-> "Pay period not found"])
    ELSE
    LET pay_period == s.pending.pay_periods[allocation_request.pay_period_id]
        total_allocation == TotalAllocation(s.pending, allocation_request)
    IN  IF ExceedsIncome(total_allocation, pay_period.total_income)
        THEN Outcome(s, "exceeds_income",
                     [total_allocation |-> total_allocation,
                      total_income |-> pay_period.total_income])
        ELSE create_categories(s, allocation_request.pay_period_id,
                               allocation_request.allocations, 1, <<>>)

(***************************************************************************)
(* Requests.  Each request opens a session on the store, runs one service  *)
(* call and closes the session; what the call committed is the new store.  *)
(* last records the caller, the operation and its outcome.                 *)
(***************************************************************************)
Respond(op, user, r) ==
    /\ pay_periods' = r.s.durable.pay_periods
    /\ budget_categories' = r.s.durable.budget_categories
    /\ transactions' = r.s.durable.transactions
    /\ last' = [op |-> op, user |-> user, status |-> r.status, ret |-> r.ret]
    /\ UNCHANGED <<sessions, connection>>

Req_create_pay_period(user, pay_period_data) ==
    Respond("create_pay_period", user,
            create_pay_period(OpenSession(Store), user, pay_period_data))

Req_update_pay_period(user, pay_period_id, update_data) ==
    Respond("update_pay_period", user,
            update_pay_period(OpenSession(Store), user, pay_period_id, update_data))

Req_allocate_budget(user, allocation_request) ==
    Respond("allocate_budget", user,
            allocate_budget(OpenSession(Store), user, allocation_request))

Req_create_transaction(user, transaction_data) ==
    Respond("create_transaction", user,
            create_transaction(OpenSession(Store), user, transaction_data))

Req_bulk_create_transactions(user, bulk_data) ==
    Respond("bulk_create_transactions", user,
            bulk_create_transactions(OpenSession(Store), user, bulk_data))

Req_update_transaction(user, transaction_id, update_data) ==
    Respond("update_transaction", user,
            update_transaction(OpenSession(Store), user, transaction_id,
                               update_data))

Req_delete_transaction(user, transaction_id) ==
    Respond("delete_transaction", user,
            delete_transaction(OpenSession(Store), user, transaction_id))

Req_get_pay_periods(user, status_filter) ==
    Respond("get_pay_periods", user,
            Outcome(OpenSession(Store), "ok",
                    [pay_periods |-> get_user_pay_periods(Store, user,
                                                          status_filter)]))

Req_get_pay_period(user, pay_period_id) ==
    Respond("get_pay_period", user,
            Outcome(OpenSession(Store), "ok",
                    [pay_period |->
                        IF get_pay_period_by_id(Store, user, pay_period_id) = None
                        THEN None ELSE Some(pay_period_id)]))

Req_get_period_summary(user, pay_period_id) ==
    Respond("get_period_summary", user,
            Outcome(OpenSession(Store), "ok",
                    [summary |-> get_period_summary(Store, user, pay_period_id)]))

Req_get_transactions(user, pay_period_id, category_id) ==
    Respond("get_transactions", user,
            Outcome(OpenSession(Store), "ok",
                    [transactions |->
                        get_user_transactions(Store, user, pay_period_id,
                                              category_id)]))

Req_get_transaction(user, transaction_id) ==
    Respond("get_transaction", user,
            Outcome(OpenSession(Store), "ok",
                    [transaction |->
                        IF get_transaction_by_id(Store, user, transaction_id) = None
                        THEN None ELSE Some(transaction_id)]))

Req_get_spending_summary(user, pay_period_id) ==
    Respond("get_spending_summary", user,
            Outcome(OpenSession(Store), "ok",
                    [summary |-> get_spending_summary(Store, user, pay_period_id)]))

Req_get_spending_analytics(user) ==
    Respond("get_spending_analytics", user,
            Outcome(OpenSession(Store), "ok",
                    [analytics |-> get_spending_analytics(Store, user)]))

\* mutant: an amount of nothing passes the validation
ValidAmount_NonNegative(amount) == amount >= 0

\* amount: Decimal = Field(..., gt=0)
ValidAmount(amount) == amount > 0

\* the body of a request did not pass the validation of its schema: the
\* endpoint is not called
Unprocessable(op, user) ==
    Respond(op, user, Outcome(OpenSession(Store), "validation_error",
                              [message |-> "Unprocessable Entity"]))

\* POST /transactions/ with a body that is validated as TransactionCreate
Post_create_transaction(user, body) ==
    IF ValidAmount(body.amount)
    THEN Req_create_transaction(user, body)
    ELSE Unprocessable("create_transaction", user)

\* POST /transactions/bulk with a body that is validated as
\* TransactionBulkCreate
Post_bulk_create_transactions(user, body) ==
    IF \A i \in 1..Len(body) : ValidAmount(body[i].amount)
    THEN Req_bulk_create_transactions(user, body)
    ELSE Unprocessable("bulk_create_transactions", user)

\* PUT /transactions/{id} with a body that is validated as TransactionUpdate
Put_update_transaction(user, transaction_id, body) ==
    IF body.amount = None \/ ValidAmount(body.amount[1])
    THEN Req_update_transaction(user, transaction_id, body)
    ELSE Unprocessable("update_transaction", user)

\* the status code of the response to a request whose outcome is l: the
\* routers answer a None (or False) of the service with 404, the exception
\* handlers turn an HTTPException into its status code and any other
\* exception into 500
ResponseCode(l) ==
    IF l.status = "not_found" THEN 404
    ELSE IF l.status = "validation_error" THEN 422
    ELSE IF l.status \in {"insufficient_budget", "overlap", "exceeds_income",
                          "bulk_failed"} THEN 400
    ELSE IF l.status # "ok" THEN 500
    ELSE IF l.op \in {"get_pay_period", "update_pay_period"}
         THEN (IF l.ret.pay_period = None THEN 404 ELSE 200)
    ELSE IF l.op = "get_period_summary"
         THEN (IF l.ret.summary = None THEN 404 ELSE 200)
    ELSE IF l.op \in {"get_transaction", "update_transaction"}
         THEN (IF l.ret.transaction = None THEN 404 ELSE 200)
    ELSE IF l.op = "delete_transaction"
         THEN (IF l.ret.deleted THEN 200 ELSE 404)
    ELSE IF l.op \in {"create_pay_period", "create_transaction"} THEN 201
    ELSE 200

(***************************************************************************)
(* Requests under way at the same time.  Each awaited statement of a       *)
(* request is one step; between two steps the other requests may run.      *)
(* All sessions share the connection of the StaticPool: a statement sees   *)
(* the uncommitted work of every session, and a COMMIT or ROLLBACK of one  *)
(* session ends the transaction of the connection for all of them.         *)
(***************************************************************************)
Idle == [pc |-> "idle"]

\* what a statement on the connection reads
View == IF connection = None THEN Store ELSE connection[1]

\* the sessions that will still insert a transaction
Inserting ==
    {w \in Workers : sessions[w].pc \in {"flush_update", "flush_insert"}}

\* a step of worker w that touches neither the store nor the connection
SessionStep(w, session) ==
    /\ sessions' = [sessions EXCEPT ![w] = session]
    /\ UNCHANGED <<pay_periods, budget_categories, transactions, last,
                   connection>>

\* a statement of worker w that writes on the connection
SessionWrite(w, session, view) ==
    /\ sessions' = [sessions EXCEPT ![w] = session]
    /\ connection' = Some(view)
    /\ UNCHANGED <<pay_periods, budget_categories, transactions, last>>

\* the request of worker w ends in an exception: get_session rolls back
\* and closes the session
Raise(session, status, ret) ==
    [pc |-> "close", op |-> session.op, user |-> session.user,
     status |-> status, ret |-> ret]

\* create_transaction, the select of the category and the checks after it
SelectCategory(w, user, transaction_data) ==
    LET db  == View
        cid == transaction_data.budget_category_id
        session == [op |-> "create_transaction", user |-> user]
    IN  /\ sessions[w] = Idle
        /\ IF cid \notin OwnedCategoryIds(db, user)
           THEN SessionStep(w, Raise(session, "not_found",
                                     [message |-> "Budget category not found"]))
           ELSE LET budget_category == db.budget_categories[cid]
                IN  IF InsufficientBudget(budget_category.remaining_amount,
                                          transaction_data.amount)
                    THEN SessionStep(w, Raise(session, "insufficient_budget",
                             [available |-> budget_category.remaining_amount,
                              requested |-> transaction_data.amount]))
                    ELSE SessionStep(w,
                             [pc |-> "flush_update",
                              op |-> "create_transaction", user |-> user,
                              budget_category_id |-> cid,
                              remaining_amount |->
                                  DeductAmount(budget_category.remaining_amount,
                                               transaction_data.amount),
                              db_transaction |->
                                  Transaction(budget_category.pay_period_id, cid,
                                              transaction_data.amount,
                                              transaction_data.description,
                                              transaction_data.source)])

\* db.commit(), the flush: UPDATE budget_categories SET remaining_amount
FlushUpdate(w) ==
    /\ sessions[w].pc = "flush_update"
    /\ SessionWrite(w, [sessions[w] EXCEPT !.pc = "flush_insert"],
                    [View EXCEPT
                       !.budget_categories[sessions[w].budget_category_id]
                            .remaining_amount = sessions[w].remaining_amount])

\* db.commit(), the flush: INSERT INTO transactions
FlushInsert(w) ==
    /\ sessions[w].pc = "flush_insert"
    /\ LET id == NewTransactionId(View)
       IN  SessionWrite(w,
               [pc |-> "commit", op |-> sessions[w].op,
                user |-> sessions[w].user, id |-> id],
               [View EXCEPT !.transactions =
                                @ @@ (id :> sessions[w].db_transaction)])

\* db.commit(), the COMMIT: what is uncommitted on the connection, of
\* whichever session, becomes durable
CommitConnection(w) ==
    /\ sessions[w].pc = "commit"
    /\ pay_periods' = View.pay_periods
    /\ budget_categories' = View.budget_categories
    /\ transactions' = View.transactions
    /\ connection' = None
    /\ sessions' = [sessions EXCEPT ![w].pc = "refresh"]
    /\ UNCHANGED last

\* db.refresh(db_transaction): the row is read back by its id
RefreshTransaction(w) ==
    /\ sessions[w].pc = "refresh"
    /\ IF sessions[w].id \in TransactionIds(View)
       THEN SessionStep(w, [pc |-> "close", op |-> sessions[w].op,
                            user |-> sessions[w].user, status |-> "ok",
                            ret |-> [id |-> sessions[w].id]])
       ELSE SessionStep(w, Raise(sessions[w], "invalid_request",
                                 [message |-> "Could not refresh instance"]))

\* a COMMIT of worker w: what is uncommitted on the connection becomes
\* durable
SessionCommit(w, session) ==
    /\ pay_periods' = View.pay_periods
    /\ budget_categories' = View.budget_categories
    /\ transactions' = View.transactions
    /\ connection' = None
    /\ sessions' = [sessions EXCEPT ![w] = session]
    /\ UNCHANGED last

\* create_pay_period, the overlap query and the check after it
SelectOverlapping(w, user, pay_period_data) ==
    LET end_date == calculate_end_date(pay_period_data.start_date,
                                       pay_period_data.frequency)
        overlapping == OverlappingPeriodIds(View, user,
                                            pay_period_data.start_date, end_date)
        session == [op |-> "create_pay_period", user |-> user]
    IN  /\ sessions[w] = Idle
        /\ IF Cardinality(overlapping) > 1
           THEN SessionStep(w, Raise(session, "multiple_results_found",
                                     [message |-> "MultipleResultsFound"]))
           ELSE IF overlapping # {}
           THEN SessionStep(w, Raise(session, "overlap",
                    [message |->
                        "Pay period overlaps with existing active period"]))
           ELSE SessionStep(w,
                    [pc |-> "insert_period", op |-> "create_pay_period",
                     user |-> user, pay_period_data |-> pay_period_data,
                     end_date |-> end_date])

\* db.add(db_pay_period); db.commit(), the flush: INSERT INTO pay_periods
InsertPeriod(w) ==
    /\ sessions[w].pc = "insert_period"
    /\ LET data == sessions[w].pay_period_data
           db_pay_period == PayPeriod(sessions[w].user, data.start_date,
                                      sessions[w].end_date, data.frequency,
                                      data.total_income, "active")
       IN  SessionWrite(w,
               [pc |-> "commit_period", op |-> sessions[w].op,
                user |-> sessions[w].user, pay_period_data |-> data,
                id |-> Len(View.pay_periods) + 1],
               [View EXCEPT !.pay_periods = Append(@, db_pay_period)])

\* db.commit(), the COMMIT of the period
CommitPeriod(w) ==
    /\ sessions[w].pc = "commit_period"
    /\ SessionCommit(w, [sessions[w] EXCEPT !.pc = "refresh_period"])

\* db.refresh(db_pay_period), then the categories if there are any
RefreshPeriod(w) ==
    /\ sessions[w].pc = "refresh_period"
    /\ IF sessions[w].id \notin 1..Len(View.pay_periods)
       THEN SessionStep(w, Raise(sessions[w], "invalid_request",
                                 [message |-> "Could not refresh instance"]))
       ELSE IF sessions[w].pay_period_data.budget_categories = <<>>
       THEN SessionStep(w, [pc |-> "close", op |-> sessions[w].op,
                            user |-> sessions[w].user, status |-> "ok",
                            ret |-> [id |-> sessions[w].id]])
       ELSE SessionStep(w, [pc |-> "insert_category", op |-> sessions[w].op,
                            user |-> sessions[w].user,
                            pay_period_data |-> sessions[w].pay_period_data,
                            id |-> sessions[w].id, i |-> 1])

\* _create_budget_category, the flush: INSERT INTO budget_categories
InsertCategory(w) ==
    /\ sessions[w].pc = "insert_category"
    /\ LET category_data ==
               sessions[w].pay_period_data.budget_categories[sessions[w].i]
           db_category ==
               BudgetCategory(sessions[w].id, category_data.name,
                              category_data.allocated_amount,
                              InitialRemaining(category_data.allocated_amount))
       IN  SessionWrite(w,
               [pc |-> "commit_category", op |-> sessions[w].op,
                user |-> sessions[w].user,
                pay_period_data |-> sessions[w].pay_period_data,
                id |-> sessions[w].id, i |-> sessions[w].i,
                category_id |-> Len(View.budget_categories) + 1],
               [View EXCEPT !.budget_categories = Append(@, db_category)])

\* _create_budget_category, the COMMIT of the category
CommitCategory(w) ==
    /\ sessions[w].pc = "commit_category"
    /\ SessionCommit(w, [sessions[w] EXCEPT !.pc = "refresh_category"])

\* db.refresh(db_category), then the next category or the response
RefreshCategory(w) ==
    /\ sessions[w].pc = "refresh_category"
    /\ IF sessions[w].category_id \notin 1..Len(View.budget_categories)
       THEN SessionStep(w, Raise(sessions[w], "invalid_request",
                                 [message |-> "Could not refresh instance"]))
       ELSE IF sessions[w].i = Len(sessions[w].pay_period_data.budget_categories)
       THEN SessionStep(w, [pc |-> "close", op |-> sessions[w].op,
                            user |-> sessions[w].user, status |-> "ok",
                            ret |-> [id |-> sessions[w].id]])
       ELSE SessionStep(w, [pc |-> "insert_category", op |-> sessions[w].op,
                            user |-> sessions[w].user,
                            pay_period_data |-> sessions[w].pay_period_data,
                            id |-> sessions[w].id, i |-> sessions[w].i + 1])

\* get_pay_period_by_id as a request under way: the period and, by
\* selectinload, its categories, as the connection shows them
SelectPayPeriod(w, user, pay_period_id) ==
    /\ sessions[w] = Idle
    /\ SessionStep(w,
          [pc |-> "close", op |-> "get_pay_period", user |-> user,
           status |-> "ok",
           ret |-> [pay_period |-> get_pay_period_by_id(View, user,
                                                        pay_period_id),
                    budget_categories |->
                        IF get_pay_period_by_id(View, user, pay_period_id) = None
                        THEN {}
                        ELSE {c \in 1..Len(View.budget_categories) :
                                View.budget_categories[c].pay_period_id
                                    = pay_period_id}]])

\* get_period_summary as a request under way: its statements read the
\* connection
SelectSummary(w, user, pay_period_id) ==
    /\ sessions[w] = Idle
    /\ SessionStep(w, [pc |-> "close", op |-> "get_period_summary",
                       user |-> user, status |-> "ok",
                       ret |-> [summary |->
                                   get_period_summary(View, user, pay_period_id)]])

\* the end of a request: get_session rolls back after an exception and
\* closes the session, which rolls back the connection it hands back; the
\* response goes out
CloseSession(w) ==
    /\ sessions[w].pc = "close"
    /\ connection' = None
    /\ sessions' = [sessions EXCEPT ![w] = Idle]
    /\ last' = [op |-> sessions[w].op, user |-> sessions[w].user,
                status |-> sessions[w].status, ret |-> sessions[w].ret]
    /\ UNCHANGED <<pay_periods, budget_categories, transactions>>

(***************************************************************************)
(* Inputs of the requests.                                                 *)
(***************************************************************************)
Frequencies == {"weekly", "bi_weekly", "monthly"}
Statuses == {"active", "completed"}
Sources == {"manual", "api"}
Amounts == {1, 2, 3}

Category(name, allocated_amount) ==
    [name |-> name, allocated_amount |-> allocated_amount]

AllocationBatches ==
    {<<Category("a", 1), Category("b", 2)>>,
     <<Category("a", 2), Category("b", 2)>>}

BudgetAllocationRequest ==
    [pay_period_id : 1..MaxPayPeriods, allocations : AllocationBatches]

PayPeriodCreate(Starts, InitialCategories) ==
    [start_date : {st[1] : st \in Starts}, frequency : {st[2] : st \in Starts},
     total_income : {3}, budget_categories : InitialCategories]
        \cap {d \in [start_date : {st[1] : st \in Starts},
                     frequency : {st[2] : st \in Starts},
                     total_income : {3}, budget_categories : InitialCategories] :
                <<d.start_date, d.frequency>> \in Starts}

PayPeriodUpdate(StatusPatches, IncomePatches) ==
    [status : StatusPatches, total_income : IncomePatches]

TransactionCreate ==
    [budget_category_id : 1..MaxCategories, amount : Amounts,
     description : {"d1"}, source : {"manual"}]

BulkItem(c, a) ==
    [budget_category_id |-> c, amount |-> a, description |-> "d1",
     source |-> "manual"]

TransactionBulkCreate ==
    {<<>>} \cup {<<BulkItem(c, 1), BulkItem(d, 2)>> :
                    c \in 1..MaxCategories, d \in 1..MaxCategories}

TransactionUpdate(Descriptions) ==
    [amount : {None} \cup {Some(a) : a \in Amounts},
     description : {None} \cup {Some(d) : d \in Descriptions}]

Init ==
    /\ pay_periods = EmptyStore.pay_periods
    /\ budget_categories = EmptyStore.budget_categories
    /\ transactions = EmptyStore.transactions
    /\ last = [op |-> "init", user |-> 0, status |-> "ok", ret |-> [id |-> 0]]
    /\ sessions = [w \in Workers |-> Idle]
    /\ connection = None

\* the size of the store the specifications explore
WithinBounds ==
    /\ Len(pay_periods) <= MaxPayPeriods
    /\ Len(budget_categories) <= MaxCategories
    /\ Cardinality(DOMAIN transactions) <= MaxTransactions

(***************************************************************************)
(* Spec: every operation, serialized.  User 1 owns the periods (bi-weekly, *)
(* starting on the epoch, never completed, so the overlap check allows one *)
(* of them); user 2 is the other caller.                                   *)
(***************************************************************************)
LedgerPeriods ==
    PayPeriodCreate({<<Epoch, "bi_weekly">>},
                    {<<>>, <<Category("a", 2)>>})
LedgerPeriodUpdates ==
    {[status |-> Some("active"), total_income |-> None],
     [status |-> None, total_income |-> Some(2)]}

CreatePayPeriod ==
    \E pay_period_data \in LedgerPeriods :
        /\ Req_create_pay_period(1, pay_period_data)
        /\ WithinBounds'

UpdatePayPeriod ==
    \E user \in Users, pay_period_id \in 1..MaxPayPeriods,
       update_data \in LedgerPeriodUpdates :
        /\ Req_update_pay_period(user, pay_period_id, update_data)
        /\ WithinBounds'

AllocateBudget ==
    \E user \in Users, allocation_request \in BudgetAllocationRequest :
        /\ Req_allocate_budget(user, allocation_request)
        /\ WithinBounds'

CreateTransaction ==
    \E user \in Users, transaction_data \in TransactionCreate :
        /\ Req_create_transaction(user, transaction_data)
        /\ WithinBounds'

BulkCreateTransactions ==
    \E user \in Users, bulk_data \in TransactionBulkCreate :
        /\ Req_bulk_create_transactions(user, bulk_data)
        /\ WithinBounds'

UpdateTransaction ==
    \E user \in Users, transaction_id \in 1..MaxTransactions,
       update_data \in TransactionUpdate({"d1"}) :
        /\ Req_update_transaction(user, transaction_id, update_data)
        /\ WithinBounds'

DeleteTransaction ==
    \E user \in Users, transaction_id \in 1..MaxTransactions :
        /\ Req_delete_transaction(user, transaction_id)
        /\ WithinBounds'

Next ==
    \/ CreatePayPeriod
    \/ UpdatePayPeriod
    \/ AllocateBudget
    \/ CreateTransaction
    \/ BulkCreateTransactions
    \/ UpdateTransaction
    \/ DeleteTransaction

Spec == Init /\ [][Next]_vars

(***************************************************************************)
(* SpecPeriods: the Period Manager alone.  Both users create weekly and    *)
(* bi-weekly periods in January 2024, each with one initial category, and  *)
(* change their status.                                                    *)
(***************************************************************************)
PeriodStarts ==
    {<<Date(2024, 1, 1), "weekly">>, <<Date(2024, 1, 7), "weekly">>,
     <<Date(2024, 1, 8), "weekly">>, <<Date(2024, 1, 1), "bi_weekly">>}
PeriodRequests == PayPeriodCreate(PeriodStarts, {<<Category("a", 2)>>})
PeriodUpdates ==
    PayPeriodUpdate({None} \cup {Some(st) : st \in Statuses}, {None})

PeriodsCreatePayPeriod ==
    \E user \in Users, pay_period_data \in PeriodRequests :
        /\ Req_create_pay_period(user, pay_period_data)
        /\ Len(pay_periods') <= MaxPayPeriods

PeriodsUpdatePayPeriod ==
    \E user \in Users, pay_period_id \in 1..MaxPayPeriods,
       update_data \in PeriodUpdates :
        /\ Req_update_pay_period(user, pay_period_id, update_data)
        /\ Len(pay_periods') <= MaxPayPeriods

NextPeriods ==
    \/ PeriodsCreatePayPeriod
    \/ PeriodsUpdatePayPeriod

SpecPeriods == Init /\ [][NextPeriods]_vars

(***************************************************************************)
(* SpecUpdate: one period of user 1 with one category; both users create   *)
(* and update transactions, with new amounts and a new description.        *)
(***************************************************************************)
UpdatePeriods ==
    PayPeriodCreate({<<Epoch, "bi_weekly">>}, {<<Category("a", 3)>>})
UpdateCreates == {d \in TransactionCreate : d.amount \in {1, 2}}
UpdatePatches == TransactionUpdate({"d2"})

UpdCreatePayPeriod ==
    \E pay_period_data \in UpdatePeriods :
        /\ Req_create_pay_period(1, pay_period_data)
        /\ WithinBounds'

UpdCreateTransaction ==
    \E user \in Users, transaction_data \in UpdateCreates :
        /\ Req_create_transaction(user, transaction_data)
        /\ WithinBounds'

UpdUpdateTransaction ==
    \E user \in Users, transaction_id \in 1..MaxTransactions,
       update_data \in UpdatePatches :
        /\ Req_update_transaction(user, transaction_id, update_data)
        /\ WithinBounds'

NextUpdate ==
    \/ UpdCreatePayPeriod
    \/ UpdCreateTransaction
    \/ UpdUpdateTransaction

SpecUpdate == Init /\ [][NextUpdate]_vars

(***************************************************************************)
(* SpecAllocate: the Allocation Engine.  Both users create one bi-weekly   *)
(* period with or without an initial category, allocate batches of one or  *)
(* two categories to any period, and edit total_income.                    *)
(***************************************************************************)
AllocatePeriods ==
    PayPeriodCreate({<<Epoch, "bi_weekly">>}, {<<>>, <<Category("a", 2)>>})
AllocateRequests ==
    [pay_period_id : 1..MaxPayPeriods,
     allocations : AllocationBatches \cup {<<Category("c", 2)>>}]
AllocateIncomes == PayPeriodUpdate({None}, {Some(2), Some(3)})

AllocCreatePayPeriod ==
    \E user \in Users, pay_period_data \in AllocatePeriods :
        /\ Req_create_pay_period(user, pay_period_data)
        /\ WithinBounds'

AllocAllocateBudget ==
    \E user \in Users, allocation_request \in AllocateRequests :
        /\ Req_allocate_budget(user, allocation_request)
        /\ WithinBounds'

AllocUpdatePayPeriod ==
    \E user \in Users, pay_period_id \in 1..MaxPayPeriods,
       update_data \in AllocateIncomes :
        /\ Req_update_pay_period(user, pay_period_id, update_data)
        /\ WithinBounds'

NextAllocate ==
    \/ AllocCreatePayPeriod
    \/ AllocAllocateBudget
    \/ AllocUpdatePayPeriod

SpecAllocate == Init /\ [][NextAllocate]_vars

(***************************************************************************)
(* SpecDates: user 1 creates periods of every frequency that start at the  *)
(* ends of months, in a leap and a common February and in December.        *)
(***************************************************************************)
DateStarts ==
    {Date(2024, 1, 31), Date(2024, 2, 29), Date(2024, 4, 30),
     Date(2024, 12, 15), Date(2024, 12, 31), Date(2025, 2, 1)}
DateRequests ==
    PayPeriodCreate({<<dt, f>> : dt \in DateStarts, f \in Frequencies}, {<<>>})

DatesCreatePayPeriod ==
    \E pay_period_data \in DateRequests :
        /\ Req_create_pay_period(1, pay_period_data)
        /\ WithinBounds'

NextDates ==
    \/ DatesCreatePayPeriod

SpecDates == Init /\ [][NextDates]_vars

(***************************************************************************)
(* SpecShared: two owners.  Both users create weekly periods with one      *)
(* category, complete them and edit their income, ask for an allocation    *)
(* above the income, create, update and delete transactions, and read      *)
(* periods, transactions and summaries; each of them also addresses the    *)
(* other's ids.                                                            *)
(***************************************************************************)
SharedPeriods == PayPeriodCreate({<<Epoch, "weekly">>}, {<<Category("a", 2)>>})
SharedPeriodUpdates ==
    {[status |-> Some("completed"), total_income |-> None],
     [status |-> None, total_income |-> Some(2)]}
SharedAllocations ==
    [pay_period_id : 1..MaxPayPeriods, allocations : {<<Category("c", 4)>>}]
SharedCreates == {d \in TransactionCreate : d.amount = 1}
SharedPatches == [amount : {Some(2)}, description : {None}]

SharedCreatePayPeriod ==
    \E user \in Users, pay_period_data \in SharedPeriods :
        /\ Req_create_pay_period(user, pay_period_data)
        /\ WithinBounds'

SharedUpdatePayPeriod ==
    \E user \in Users, pay_period_id \in 1..MaxPayPeriods,
       update_data \in SharedPeriodUpdates :
        /\ Req_update_pay_period(user, pay_period_id, update_data)
        /\ WithinBounds'

SharedAllocateBudget ==
    \E user \in Users, allocation_request \in SharedAllocations :
        /\ Req_allocate_budget(user, allocation_request)
        /\ WithinBounds'

SharedCreateTransaction ==
    \E user \in Users, transaction_data \in SharedCreates :
        /\ Req_create_transaction(user, transaction_data)
        /\ WithinBounds'

SharedUpdateTransaction ==
    \E user \in Users, transaction_id \in 1..MaxTransactions,
       update_data \in SharedPatches :
        /\ Req_update_transaction(user, transaction_id, update_data)
        /\ WithinBounds'

SharedDeleteTransaction ==
    \E user \in Users, transaction_id \in 1..MaxTransactions :
        /\ Req_delete_transaction(user, transaction_id)
        /\ WithinBounds'

SharedGetPayPeriod ==
    \E user \in Users, pay_period_id \in 1..MaxPayPeriods :
        /\ Req_get_pay_period(user, pay_period_id)
        /\ WithinBounds'

SharedGetPeriodSummary ==
    \E user \in Users, pay_period_id \in 1..MaxPayPeriods :
        /\ Req_get_period_summary(user, pay_period_id)
        /\ WithinBounds'

SharedGetTransaction ==
    \E user \in Users, transaction_id \in 1..MaxTransactions :
        /\ Req_get_transaction(user, transaction_id)
        /\ WithinBounds'

SharedGetSpendingSummary ==
    \E user \in Users, pay_period_id \in 1..MaxPayPeriods :
        /\ Req_get_spending_summary(user, pay_period_id)
        /\ WithinBounds'

NextShared ==
    \/ SharedCreatePayPeriod
    \/ SharedUpdatePayPeriod
    \/ SharedAllocateBudget
    \/ SharedCreateTransaction
    \/ SharedUpdateTransaction
    \/ SharedDeleteTransaction
    \/ SharedGetPayPeriod
    \/ SharedGetPeriodSummary
    \/ SharedGetTransaction
    \/ SharedGetSpendingSummary

SpecShared == Init /\ [][NextShared]_vars

(***************************************************************************)
(* SpecConcurrent: user 1 creates a period with one category; then two     *)
(* workers run create_transaction and period_summary requests of user 1    *)
(* whose statements interleave.                                            *)
(***************************************************************************)
ConcurrentPeriods ==
    PayPeriodCreate({<<Epoch, "bi_weekly">>},
                    {<<Category("a", 2), Category("b", 1)>>})
ConcurrentCreates == {d \in TransactionCreate : d.amount \in {1, 2}}

ConcCreatePayPeriod ==
    \E pay_period_data \in ConcurrentPeriods :
        /\ \A w \in Workers : sessions[w] = Idle
        /\ Req_create_pay_period(1, pay_period_data)
        /\ WithinBounds'

ConcSelectCategory ==
    \E w \in Workers, transaction_data \in ConcurrentCreates :
        /\ Cardinality(TransactionIds(View)) + Cardinality(Inserting)
               < MaxTransactions
        /\ SelectCategory(w, 1, transaction_data)

ConcFlushUpdate == \E w \in Workers : FlushUpdate(w) /\ WithinBounds'

ConcFlushInsert == \E w \in Workers : FlushInsert(w) /\ WithinBounds'

ConcCommit == \E w \in Workers : CommitConnection(w) /\ WithinBounds'

ConcRefresh == \E w \in Workers : RefreshTransaction(w) /\ WithinBounds'

ConcSelectSummary ==
    \E w \in Workers : SelectSummary(w, 1, 1) /\ WithinBounds'

ConcClose == \E w \in Workers : CloseSession(w) /\ WithinBounds'

NextConcurrent ==
    \/ ConcCreatePayPeriod
    \/ ConcSelectCategory
    \/ ConcFlushUpdate
    \/ ConcFlushInsert
    \/ ConcCommit
    \/ ConcRefresh
    \/ ConcSelectSummary
    \/ ConcClose

SpecConcurrent == Init /\ [][NextConcurrent]_vars

(***************************************************************************)
(* SpecRace: the same, with create_transaction requests only.              *)
(***************************************************************************)
NextRace ==
    \/ ConcCreatePayPeriod
    \/ ConcSelectCategory
    \/ ConcFlushUpdate
    \/ ConcFlushInsert
    \/ ConcCommit
    \/ ConcRefresh
    \/ ConcClose

SpecRace == Init /\ [][NextRace]_vars

(***************************************************************************)
(* SpecRepeat: create_pay_period alone.  The requests of one user have     *)
(* date ranges that share no day, so a request meets a period on a day     *)
(* only when it repeats the request that made the period.                  *)
(***************************************************************************)
RepeatStarts ==
    {<<Date(2024, 1, 1), "weekly">>, <<Date(2024, 1, 8), "weekly">>,
     <<Date(2024, 2, 1), "monthly">>, <<Date(2024, 3, 1), "bi_weekly">>}
RepeatRequests == PayPeriodCreate(RepeatStarts, {<<>>, <<Category("a", 2)>>})

RepeatCreatePayPeriod ==
    \E user \in Users, pay_period_data \in RepeatRequests :
        /\ Req_create_pay_period(user, pay_period_data)
        /\ WithinBounds'

NextRepeat == RepeatCreatePayPeriod

SpecRepeat == Init /\ [][NextRepeat]_vars

(***************************************************************************)
(* SpecSource: one period of user 1 with one category of 3; transactions   *)
(* of 1 and 2 are created one at a time and in bulk, with either source,   *)
(* and deleted.                                                            *)
(***************************************************************************)
SourcePeriods ==
    PayPeriodCreate({<<Epoch, "bi_weekly">>}, {<<Category("a", 3)>>})
SourceCreates ==
    [budget_category_id : {1}, amount : {1, 2}, description : {"d1"},
     source : Sources]
SourceBulks ==
    {<<x>> : x \in SourceCreates}
        \cup {<<x, y>> : x \in SourceCreates, y \in SourceCreates}

SrcCreatePayPeriod ==
    \E pay_period_data \in SourcePeriods :
        /\ Req_create_pay_period(1, pay_period_data)
        /\ WithinBounds'

SrcCreateTransaction ==
    \E user \in Users, transaction_data \in SourceCreates :
        /\ Req_create_transaction(user, transaction_data)
        /\ WithinBounds'

SrcBulkCreateTransactions ==
    \E user \in Users, bulk_data \in SourceBulks :
        /\ Req_bulk_create_transactions(user, bulk_data)
        /\ WithinBounds'

SrcDeleteTransaction ==
    \E user \in Users, transaction_id \in 1..MaxTransactions :
        /\ Req_delete_transaction(user, transaction_id)
        /\ WithinBounds'

NextSource ==
    \/ SrcCreatePayPeriod
    \/ SrcCreateTransaction
    \/ SrcBulkCreateTransactions
    \/ SrcDeleteTransaction

SpecSource == Init /\ [][NextSource]_vars

(***************************************************************************)
(* SpecList: both users create weekly periods that start on three Mondays  *)
(* of January 2024, complete and reopen them, and list them with and       *)
(* without a status filter.                                                *)
(***************************************************************************)
ListStarts ==
    {<<Date(2024, 1, 1), "weekly">>, <<Date(2024, 1, 8), "weekly">>,
     <<Date(2024, 1, 15), "weekly">>}
ListRequests == PayPeriodCreate(ListStarts, {<<>>})
ListUpdates == PayPeriodUpdate({Some(st) : st \in Statuses}, {None})
ListFilters == {None} \cup {Some(st) : st \in Statuses}

ListCreatePayPeriod ==
    \E user \in Users, pay_period_data \in ListRequests :
        /\ Req_create_pay_period(user, pay_period_data)
        /\ Len(pay_periods') <= MaxListedPeriods

ListUpdatePayPeriod ==
    \E user \in Users, pay_period_id \in 1..MaxListedPeriods,
       update_data \in ListUpdates :
        /\ Req_update_pay_period(user, pay_period_id, update_data)
        /\ Len(pay_periods') <= MaxListedPeriods

ListGetPayPeriods ==
    \E user \in Users, status_filter \in ListFilters :
        /\ Req_get_pay_periods(user, status_filter)
        /\ Len(pay_periods') <= MaxListedPeriods

NextList ==
    \/ ListCreatePayPeriod
    \/ ListUpdatePayPeriod
    \/ ListGetPayPeriods

SpecList == Init /\ [][NextList]_vars

(***************************************************************************)
(* SpecPeriodSteps: user 1 creates a weekly period with two initial        *)
(* categories, statement by statement, while the other worker reads        *)
(* period 1.                                                               *)
(***************************************************************************)
StepPeriods ==
    PayPeriodCreate({<<Epoch, "weekly">>, <<Date(2024, 1, 8), "weekly">>},
                    {<<Category("a", 2), Category("b", 1)>>})

\* the periods the requests under way will still insert
PeriodsToCome ==
    Cardinality({w \in Workers : sessions[w].pc = "insert_period"})

StepSelectOverlapping ==
    \E w \in Workers, pay_period_data \in StepPeriods :
        /\ \A v \in Workers :
               sessions[v].pc \in {"idle", "close"}
        /\ Len(View.pay_periods) < MaxPayPeriods
        /\ Len(View.budget_categories)
               + Len(pay_period_data.budget_categories) <= MaxCategories
        /\ SelectOverlapping(w, 1, pay_period_data)

StepInsertPeriod == \E w \in Workers : InsertPeriod(w) /\ WithinBounds'

StepCommitPeriod == \E w \in Workers : CommitPeriod(w) /\ WithinBounds'

StepRefreshPeriod == \E w \in Workers : RefreshPeriod(w) /\ WithinBounds'

StepInsertCategory == \E w \in Workers : InsertCategory(w) /\ WithinBounds'

StepCommitCategory == \E w \in Workers : CommitCategory(w) /\ WithinBounds'

StepRefreshCategory == \E w \in Workers : RefreshCategory(w) /\ WithinBounds'

StepSelectPayPeriod ==
    \E w \in Workers : SelectPayPeriod(w, 1, 1) /\ WithinBounds'

StepClose == \E w \in Workers : CloseSession(w) /\ WithinBounds'

NextPeriodSteps ==
    \/ StepSelectOverlapping
    \/ StepInsertPeriod
    \/ StepCommitPeriod
    \/ StepRefreshPeriod
    \/ StepInsertCategory
    \/ StepCommitCategory
    \/ StepRefreshCategory
    \/ StepSelectPayPeriod
    \/ StepClose

SpecPeriodSteps == Init /\ [][NextPeriodSteps]_vars

(***************************************************************************)
(* SpecPeriodRace: two workers run create_pay_period for user 1, without   *)
(* initial categories, for date ranges that share days.                    *)
(***************************************************************************)
RacePeriods ==
    PayPeriodCreate({<<Epoch, "weekly">>, <<Epoch, "bi_weekly">>,
                     <<Date(2024, 1, 7), "weekly">>}, {<<>>})

RaceSelectOverlapping ==
    \E w \in Workers, pay_period_data \in RacePeriods :
        /\ Len(View.pay_periods) + PeriodsToCome < MaxPayPeriods
        /\ SelectOverlapping(w, 1, pay_period_data)

RaceInsertPeriod == \E w \in Workers : InsertPeriod(w) /\ WithinBounds'

RaceCommitPeriod == \E w \in Workers : CommitPeriod(w) /\ WithinBounds'

RaceRefreshPeriod == \E w \in Workers : RefreshPeriod(w) /\ WithinBounds'

RaceClose == \E w \in Workers : CloseSession(w) /\ WithinBounds'

NextPeriodRace ==
    \/ RaceSelectOverlapping
    \/ RaceInsertPeriod
    \/ RaceCommitPeriod
    \/ RaceRefreshPeriod
    \/ RaceClose

SpecPeriodRace == Init /\ [][NextPeriodRace]_vars

(***************************************************************************)
(* SpecRaw: every operation, serialized, with request bodies as they come: *)
(* amounts of -1 and 0 beside the positive ones.  User 1 owns the periods. *)
(***************************************************************************)
RawAmounts == {-1, 0, 1, 2}
RawCreates ==
    [budget_category_id : 1..MaxCategories, amount : RawAmounts,
     description : {"d1"}, source : {"manual"}]
RawBulks ==
    {<<BulkItem(c, a), BulkItem(c, b)>> :
        c \in 1..MaxCategories, a \in {0, 1}, b \in {-1, 1}}
RawUpdates ==
    [amount : {None} \cup {Some(a) : a \in RawAmounts}, description : {None}]

RawCreatePayPeriod ==
    \E pay_period_data \in LedgerPeriods :
        /\ Req_create_pay_period(1, pay_period_data)
        /\ WithinBounds'

RawUpdatePayPeriod ==
    \E pay_period_id \in 1..MaxPayPeriods, update_data \in LedgerPeriodUpdates :
        /\ Req_update_pay_period(1, pay_period_id, update_data)
        /\ WithinBounds'

RawAllocateBudget ==
    \E allocation_request \in BudgetAllocationRequest :
        /\ Req_allocate_budget(1, allocation_request)
        /\ WithinBounds'

RawCreateTransaction ==
    \E user \in Users, body \in RawCreates :
        /\ Post_create_transaction(user, body)
        /\ WithinBounds'

RawBulkCreateTransactions ==
    \E user \in Users, body \in RawBulks :
        /\ Post_bulk_create_transactions(user, body)
        /\ WithinBounds'

RawUpdateTransaction ==
    \E user \in Users, transaction_id \in 1..MaxTransactions,
       body \in RawUpdates :
        /\ Put_update_transaction(user, transaction_id, body)
        /\ WithinBounds'

RawDeleteTransaction ==
    \E user \in Users, transaction_id \in 1..MaxTransactions :
        /\ Req_delete_transaction(user, transaction_id)
        /\ WithinBounds'

NextRaw ==
    \/ RawCreatePayPeriod
    \/ RawUpdatePayPeriod
    \/ RawAllocateBudget
    \/ RawCreateTransaction
    \/ RawBulkCreateTransactions
    \/ RawUpdateTransaction
    \/ RawDeleteTransaction

SpecRaw == Init /\ [][NextRaw]_vars

(***************************************************************************)
(* SpecAdditive: user 1 creates a period of income 3, with or without a    *)
(* first category, and spends from its categories; both users allocate     *)
(* batches of one category to it, one after the other.                     *)
(***************************************************************************)
AdditiveRequests ==
    [pay_period_id : 1..MaxPayPeriods,
     allocations : {<<Category("c", 1)>>, <<Category("c", 2)>>,
                    <<Category("c", 3)>>}]
AdditiveCreates ==
    {d \in TransactionCreate : d.amount \in {1, 2}}

AddCreatePayPeriod ==
    \E pay_period_data \in LedgerPeriods :
        /\ Req_create_pay_period(1, pay_period_data)
        /\ WithinBounds'

AddAllocateBudget ==
    \E user \in Users, allocation_request \in AdditiveRequests :
        /\ Req_allocate_budget(user, allocation_request)
        /\ WithinBounds'

AddCreateTransaction ==
    \E transaction_data \in AdditiveCreates :
        /\ Req_create_transaction(1, transaction_data)
        /\ WithinBounds'

AddDeleteTransaction ==
    \E transaction_id \in 1..MaxTransactions :
        /\ Req_delete_transaction(1, transaction_id)
        /\ WithinBounds'

NextAdditive ==
    \/ AddCreatePayPeriod
    \/ AddAllocateBudget
    \/ AddCreateTransaction
    \/ AddDeleteTransaction

SpecAdditive == Init /\ [][NextAdditive]_vars

(***************************************************************************)
(* Vocabulary of the properties.                                           *)
(***************************************************************************)
CategoryIds == 1..Len(budget_categories)

\* the user who owns category c, through its pay period
CategoryOwner(c) == pay_periods[budget_categories[c].pay_period_id].user_id

\* the live transactions charged to category c
TransactionsOf(c) ==
    {t \in DOMAIN transactions : transactions[t].budget_category_id = c}

RECURSIVE SumAmounts(_)
SumAmounts(ids) ==
    IF ids = {} THEN 0
    ELSE LET t == CHOOSE x \in ids : TRUE
         IN  transactions[t].amount + SumAmounts(ids \ {t})

Remaining(c) == budget_categories[c].remaining_amount
Allocated(c) == budget_categories[c].allocated_amount

\* C1: every category's remaining_amount is its allocated_amount minus the
\* sum of the amounts of its live transactions, in every state reachable by
\* the serialized operations.
C1_BalanceInvariant ==
    \A c \in CategoryIds : Remaining(c) = Allocated(c) - SumAmounts(TransactionsOf(c))

\* after an update or a deletion a category still carries a live
\* transaction and has less remaining than allocated
C1_Witness ==
    /\ last.op \in {"update_transaction", "delete_transaction"}
    /\ last.status = "ok"
    /\ \E c \in CategoryIds : TransactionsOf(c) # {} /\ Remaining(c) < Allocated(c)

\* C2: create_transaction on a category the caller owns succeeds exactly
\* when amount <= remaining_amount; with amount = remaining_amount it leaves
\* remaining_amount 0; with amount = remaining_amount + 1 (one cent more) it
\* fails with insufficient budget, and a failure leaves transactions and
\* categories as they were.
C2_InsufficientFundsBoundary ==
    [][\A user \in Users, data \in TransactionCreate :
         LET c == data.budget_category_id
         IN  (/\ Req_create_transaction(user, data)
              /\ c \in CategoryIds
              /\ CategoryOwner(c) = user)
             => /\ (last'.status = "ok") <=> (data.amount <= Remaining(c))
                /\ (last'.status # "ok") => /\ last'.status = "insufficient_budget"
                                            /\ transactions' = transactions
                                            /\ budget_categories' = budget_categories
                /\ (data.amount = Remaining(c))
                      => /\ last'.status = "ok"
                         /\ budget_categories'[c].remaining_amount = 0
                /\ (data.amount = Remaining(c) + 1)
                      => last'.status = "insufficient_budget"]_vars

\* a transaction for the whole remaining amount was created and left 0
C2_Witness ==
    /\ last.op = "create_transaction"
    /\ last.status = "ok"
    /\ Remaining(transactions[last.ret.id].budget_category_id) = 0

\* a transaction one cent above the remaining amount was refused
C2_WitnessRefused ==
    /\ last.op = "create_transaction"
    /\ last.status = "insufficient_budget"
    /\ last.ret.requested = last.ret.available + 1

\* C3: a successful create_transaction adds exactly one transaction, with
\* the requested amount, the category and the category's pay period, and
\* lowers that category's remaining_amount by exactly the amount; every
\* other category, every allocated_amount and every other transaction stay
\* as they were.
C3_CreateFrame ==
    [][\A user \in Users, data \in TransactionCreate :
         LET c  == data.budget_category_id
             id == last'.ret.id
         IN  (Req_create_transaction(user, data) /\ last'.status = "ok")
             => /\ id \notin DOMAIN transactions
                /\ DOMAIN transactions' = DOMAIN transactions \cup {id}
                /\ \A t \in DOMAIN transactions : transactions'[t] = transactions[t]
                /\ transactions'[id].amount = data.amount
                /\ transactions'[id].budget_category_id = c
                /\ transactions'[id].pay_period_id = budget_categories[c].pay_period_id
                /\ Len(budget_categories') = Len(budget_categories)
                /\ budget_categories'[c].remaining_amount = Remaining(c) - data.amount
                /\ budget_categories'[c].allocated_amount = Allocated(c)
                /\ \A d \in CategoryIds \ {c} :
                       budget_categories'[d] = budget_categories[d]
                /\ pay_periods' = pay_periods]_vars

\* a transaction was created while another category and another transaction
\* existed
C3_Witness ==
    /\ last.op = "create_transaction"
    /\ last.status = "ok"
    /\ Len(budget_categories) >= 2
    /\ Cardinality(DOMAIN transactions) >= 2

\* the user who owns transaction t, through its pay period
TransactionOwner(t) == pay_periods[transactions[t].pay_period_id].user_id

\* C4: a successful update_transaction from amount A to amount B moves the
\* category's remaining_amount by exactly A - B and stores B; an update with
\* no amount leaves the amount and the category untouched.
C4_UpdateDelta ==
    [][\A user \in Users, tid \in 1..MaxTransactions, upd \in UpdatePatches :
         (/\ Req_update_transaction(user, tid, upd)
          /\ last'.status = "ok"
          /\ last'.ret.transaction # None)
         => LET A == transactions[tid].amount
                c == transactions[tid].budget_category_id
            IN  /\ tid \in DOMAIN transactions'
                /\ upd.amount # None
                     => LET B == upd.amount[1]
                        IN  /\ transactions'[tid].amount = B
                            /\ budget_categories'[c].remaining_amount
                                   = Remaining(c) + (A - B)
                            /\ B > A => budget_categories'[c].remaining_amount
                                            < Remaining(c)
                            /\ B < A => budget_categories'[c].remaining_amount
                                            > Remaining(c)
                            /\ B = A => budget_categories' = budget_categories
                /\ upd.amount = None
                     => /\ transactions'[tid].amount = A
                        /\ budget_categories' = budget_categories]_vars

\* an update raised a transaction to 3, an amount no creation of
\* SpecUpdate asks for
C4_Witness ==
    /\ last.op = "update_transaction"
    /\ last.status = "ok"
    /\ last.ret.transaction # None
    /\ transactions[last.ret.transaction[1]].amount = 3

\* C5: an update_transaction of an owned transaction that raises the amount
\* by more than the category's remaining_amount fails with insufficient
\* budget and changes nothing (amount, description, remaining_amount), also
\* when the patch carries a new description; a raise by exactly the
\* remaining_amount succeeds.
C5_UpdateInsufficient ==
    [][\A user \in Users, tid \in 1..MaxTransactions, upd \in UpdatePatches :
         (/\ Req_update_transaction(user, tid, upd)
          /\ tid \in DOMAIN transactions
          /\ TransactionOwner(tid) = user
          /\ upd.amount # None)
         => LET A == transactions[tid].amount
                B == upd.amount[1]
                c == transactions[tid].budget_category_id
            IN  /\ (B - A > Remaining(c))
                     => /\ last'.status = "insufficient_budget"
                        /\ transactions' = transactions
                        /\ budget_categories' = budget_categories
                /\ (B - A <= Remaining(c)) => last'.status = "ok"]_vars

\* a raise beyond the remaining amount was refused
C5_Witness ==
    /\ last.op = "update_transaction"
    /\ last.status = "insufficient_budget"
    /\ \E t \in DOMAIN transactions : transactions[t].description = "d1"

\* C6: deleting a live transaction the caller owns removes its record and
\* raises its category's remaining_amount by the transaction's current
\* amount, leaving everything else alone; and in every reachable state,
\* creating a transaction and deleting it again gives back the store as it
\* was.
C6_CreateThenDelete ==
    \A user \in Users, data \in TransactionCreate :
        LET r == create_transaction(OpenSession(Store), user, data)
        IN  r.status = "ok"
            => LET d == delete_transaction(OpenSession(r.s.durable), user,
                                           r.ret.id)
               IN  /\ d.ret.deleted
                   /\ d.s.durable.budget_categories = budget_categories
                   /\ d.s.durable.transactions = transactions

C6_DeleteRestores ==
    /\ []C6_CreateThenDelete
    /\ [][\A user \in Users, tid \in 1..MaxTransactions :
            (/\ Req_delete_transaction(user, tid)
             /\ tid \in DOMAIN transactions
             /\ TransactionOwner(tid) = user)
            => LET c == transactions[tid].budget_category_id
               IN  /\ last'.ret.deleted
                   /\ DOMAIN transactions' = DOMAIN transactions \ {tid}
                   /\ \A t \in DOMAIN transactions' :
                          transactions'[t] = transactions[t]
                   /\ Len(budget_categories') = Len(budget_categories)
                   /\ budget_categories'[c].remaining_amount
                          = Remaining(c) + transactions[tid].amount
                   /\ budget_categories'[c].allocated_amount = Allocated(c)
                   /\ \A d \in CategoryIds \ {c} :
                          budget_categories'[d] = budget_categories[d]]_vars

\* a transaction was deleted and its category is back at its allocation
C6_Witness ==
    /\ last.op = "delete_transaction"
    /\ last.status = "ok"
    /\ last.ret.deleted
    /\ \E c \in CategoryIds : TransactionsOf(c) = {} /\ Remaining(c) = Allocated(c)

\* C7: when bulk_create_transactions fails, no transaction of the batch is
\* persisted and every remaining_amount is what it was before the call.
C7_BulkAllOrNothing ==
    [][\A user \in Users, bulk \in TransactionBulkCreate :
         (Req_bulk_create_transactions(user, bulk) /\ last'.status # "ok")
         => /\ transactions' = transactions
            /\ budget_categories' = budget_categories]_vars

\* amounts of the items before item i of a batch that go to item i's category
RECURSIVE EarlierSameCategory(_, _, _)
EarlierSameCategory(bulk, i, j) ==
    IF j = 0 THEN 0
    ELSE (IF bulk[j].budget_category_id = bulk[i].budget_category_id
          THEN bulk[j].amount ELSE 0) + EarlierSameCategory(bulk, i, j - 1)

\* item i of a batch cannot be created once the items before it were
ItemFails(user, bulk, i) ==
    LET c == bulk[i].budget_category_id
    IN  \/ c \notin CategoryIds
        \/ CategoryOwner(c) # user
        \/ bulk[i].amount > Remaining(c) - EarlierSameCategory(bulk, i, i - 1)

\* C8: bulk_create_transactions takes the items in list order and checks
\* each against the remaining_amount left by the items before it: the call
\* fails at the first item that does not fit after its predecessors (so two
\* items on one category that fit alone but not together fail at the
\* second), and succeeds when every item fits.
C8_BulkSequential ==
    [][\A user \in Users, bulk \in TransactionBulkCreate :
         Req_bulk_create_transactions(user, bulk)
         => LET failing == {i \in 1..Len(bulk) : ItemFails(user, bulk, i)}
            IN  IF failing = {}
                THEN last'.status = "ok" /\ Len(last'.ret.created) = Len(bulk)
                ELSE LET i == CHOOSE x \in failing : \A y \in failing : x <= y
                         c == bulk[i].budget_category_id
                     IN  /\ last'.status = "bulk_failed"
                         /\ last'.ret.item = i
                         /\ last'.ret.cause = "insufficient_budget"
                              => /\ last'.ret.detail.requested = bulk[i].amount
                                 /\ last'.ret.detail.available =
                                      Remaining(c) - EarlierSameCategory(bulk, i, i - 1)
            ]_vars

\* a batch of 1 and 2 on the only category, which had 2 left, failed at its
\* second item
C8_Witness ==
    /\ last.op = "bulk_create_transactions"
    /\ last.status = "bulk_failed"
    /\ last.ret.item = 2
    /\ last.ret.cause = "insufficient_budget"
    /\ last.ret.detail.requested = 2
    /\ last.ret.detail.available = 1
    /\ Len(budget_categories) = 1

(***************************************************************************)
(* Period Manager properties.                                              *)
(***************************************************************************)
PeriodIds == 1..Len(pay_periods)

\* the inclusive date ranges of periods p and q share a day
RangesIntersect(p, q) ==
    /\ ToOrdinal(pay_periods[p].start_date) <= ToOrdinal(pay_periods[q].end_date)
    /\ ToOrdinal(pay_periods[q].start_date) <= ToOrdinal(pay_periods[p].end_date)

\* C9: no user has two active periods whose inclusive date ranges
\* intersect.
C9_NoOverlappingActivePeriods ==
    \A p \in PeriodIds, q \in PeriodIds :
        (/\ p # q
         /\ pay_periods[p].user_id = pay_periods[q].user_id
         /\ pay_periods[p].status = "active"
         /\ pay_periods[q].status = "active")
        => ~RangesIntersect(p, q)

\* the active periods of user that share a day with [start_date, end_date]
Conflicting(user, start_date, end_date) ==
    {p \in PeriodIds :
        /\ pay_periods[p].user_id = user
        /\ pay_periods[p].status = "active"
        /\ ToOrdinal(pay_periods[p].start_date) <= ToOrdinal(end_date)
        /\ ToOrdinal(pay_periods[p].end_date) >= ToOrdinal(start_date)}

\* C10: create_period fails with the overlap error exactly when one or
\* more active periods of the caller share a day with the new range, and
\* then persists no period and no category.
C10_ConflictExactly ==
    [][\A user \in Users, data \in PeriodRequests :
         Req_create_pay_period(user, data)
         => LET end_date == calculate_end_date(data.start_date, data.frequency)
                conflict == Conflicting(user, data.start_date, end_date) # {}
            IN  /\ (last'.status = "overlap") <=> conflict
                /\ conflict => /\ pay_periods' = pay_periods
                               /\ budget_categories' = budget_categories
                /\ ~conflict => last'.status = "ok"]_vars

(***************************************************************************)
(* Allocation Engine properties.                                           *)
(***************************************************************************)

\* the categories of period p
CategoriesOf(p) == {c \in CategoryIds : budget_categories[c].pay_period_id = p}

RECURSIVE SumAllocatedOf(_)
SumAllocatedOf(ids) ==
    IF ids = {} THEN 0
    ELSE LET c == CHOOSE x \in ids : TRUE
         IN  Allocated(c) + SumAllocatedOf(ids \ {c})

\* the sum of the allocated_amount values of a batch
RECURSIVE BatchTotal(_, _)
BatchTotal(allocations, n) ==
    IF n = 0 THEN 0
    ELSE allocations[n].allocated_amount + BatchTotal(allocations, n - 1)

\* C11: allocate on a period the caller owns is rejected with the
\* over-allocation error when the batch's sum is greater than the period's
\* total_income and accepted when it is equal (or less); a rejection
\* persists no category and leaves the existing ones as they were.
C11_OverAllocationBoundary ==
    [][\A user \in Users, req \in AllocateRequests :
         LET p == req.pay_period_id
         IN  (/\ Req_allocate_budget(user, req)
              /\ p \in PeriodIds
              /\ pay_periods[p].user_id = user)
             => LET total == BatchTotal(req.allocations, Len(req.allocations))
                    total_income == pay_periods[p].total_income
                IN  /\ total > total_income
                         => /\ last'.status = "exceeds_income"
                            /\ budget_categories' = budget_categories
                            /\ pay_periods' = pay_periods
                            /\ transactions' = transactions
                    /\ total = total_income => last'.status = "ok"
                    /\ total < total_income => last'.status = "ok"]_vars

\* a batch whose sum is the whole income of its period was accepted
C11_Witness ==
    /\ last.op = "allocate_budget"
    /\ last.status = "ok"
    /\ LET created == {last.ret.created[i] : i \in 1..Len(last.ret.created)}
       IN  /\ created # {}
           /\ \E p \in PeriodIds :
                  /\ created \subseteq CategoriesOf(p)
                  /\ SumAllocatedOf(created) = pay_periods[p].total_income

\* a batch one cent above the income of its period was rejected
C11_WitnessRejected ==
    /\ last.op = "allocate_budget"
    /\ last.status = "exceeds_income"
    /\ last.ret.total_allocation = last.ret.total_income + 1

\* C12: in every reachable state the allocated_amount values of the
\* categories of a period sum to at most the period's total_income.
C12_AllocationWithinIncome ==
    \A p \in PeriodIds :
        SumAllocatedOf(CategoriesOf(p)) <= pay_periods[p].total_income

\* C13: a successful allocate with n allocations appends exactly n
\* categories to the target period, returned in request order, each with
\* the requested name and allocated_amount and remaining_amount equal to
\* allocated_amount; the same holds for the initial categories of a
\* successful create_pay_period; the categories that existed are unchanged.
C13_CategoriesCreated ==
    [][/\ \A user \in Users, req \in AllocateRequests :
            (Req_allocate_budget(user, req) /\ last'.status = "ok")
            => LET n == Len(req.allocations)
                   base == Len(budget_categories)
               IN  /\ Len(budget_categories') = base + n
                   /\ last'.ret.created = [i \in 1..n |-> base + i]
                   /\ \A c \in CategoryIds :
                          budget_categories'[c] = budget_categories[c]
                   /\ \A i \in 1..n :
                          budget_categories'[base + i] =
                              [pay_period_id |-> req.pay_period_id,
                               name |-> req.allocations[i].name,
                               allocated_amount |->
                                   req.allocations[i].allocated_amount,
                               remaining_amount |->
                                   req.allocations[i].allocated_amount]
       /\ \A user \in Users, data \in AllocatePeriods :
            (Req_create_pay_period(user, data) /\ last'.status = "ok")
            => LET n == Len(data.budget_categories)
                   base == Len(budget_categories)
               IN  /\ Len(budget_categories') = base + n
                   /\ \A c \in CategoryIds :
                          budget_categories'[c] = budget_categories[c]
                   /\ \A i \in 1..n :
                          budget_categories'[base + i] =
                              [pay_period_id |-> last'.ret.id,
                               name |-> data.budget_categories[i].name,
                               allocated_amount |->
                                   data.budget_categories[i].allocated_amount,
                               remaining_amount |->
                                   data.budget_categories[i].allocated_amount]
      ]_vars

\* an allocation of two categories, a then b, was accepted
C13_Witness ==
    /\ last.op = "allocate_budget"
    /\ last.status = "ok"
    /\ Len(last.ret.created) = 2
    /\ budget_categories[last.ret.created[1]].name = "a"
    /\ budget_categories[last.ret.created[2]].name = "b"
    /\ Remaining(last.ret.created[2]) = Allocated(last.ret.created[2])

\* one category was allocated to a period that already had one
C13_WitnessAppended ==
    /\ last.op = "allocate_budget"
    /\ last.status = "ok"
    /\ last.ret.created = <<2>>
    /\ budget_categories[1].pay_period_id = budget_categories[2].pay_period_id

(***************************************************************************)
(* Period Manager: end dates and status.                                   *)
(***************************************************************************)

\* dt is a day of the calendar
IsCalendarDate(dt) ==
    /\ dt.month \in 1..12
    /\ dt.day \in 1..DaysInMonth(dt.year, dt.month)

\* end_date is what the rule of the data model derives from start_date and
\* frequency
EndDateDerived(start_date, frequency, end_date) ==
    /\ IsCalendarDate(end_date)
    /\ frequency = "weekly" => ToOrdinal(end_date) - ToOrdinal(start_date) = 6
    /\ frequency = "bi_weekly" => ToOrdinal(end_date) - ToOrdinal(start_date) = 13
    /\ frequency = "monthly"
         => /\ end_date.year = start_date.year
            /\ end_date.month = start_date.month
            /\ end_date.day = DaysInMonth(start_date.year, start_date.month)

\* every persisted period ends on the derived day, not before it starts
C14_PeriodsWellDated ==
    \A p \in PeriodIds :
        /\ EndDateDerived(pay_periods[p].start_date, pay_periods[p].frequency,
                          pay_periods[p].end_date)
        /\ ToOrdinal(pay_periods[p].end_date) >= ToOrdinal(pay_periods[p].start_date)

C14_WitnessNewYear ==
    \E p \in PeriodIds :
        /\ pay_periods[p].frequency = "weekly"
        /\ pay_periods[p].start_date = Date(2024, 12, 31)
        /\ pay_periods[p].end_date = Date(2025, 1, 6)

\* C15: a period that is completed never becomes active again.
C15_CompletedStaysCompleted ==
    [][\A p \in PeriodIds :
         pay_periods[p].status = "completed"
         => pay_periods'[p].status = "completed"]_vars

\* every persisted period still ends on the day derived from its start
C16_EndDatesStayDerived ==
    \A p \in PeriodIds :
        EndDateDerived(pay_periods[p].start_date, pay_periods[p].frequency,
                       pay_periods[p].end_date)

\* C16: update_pay_period changes at most the status and the total_income
\* of the addressed period: its owner, start_date, end_date and frequency,
\* every other period, every category and every transaction stay as they
\* were, and a field the patch does not carry keeps its value; so end_date
\* stays the value derived from (start_date, frequency).
C16_UpdatePeriodFrame ==
    /\ []C16_EndDatesStayDerived
    /\ [][last'.op = "update_pay_period"
          => \A user \in Users, pid \in 1..MaxPayPeriods,
                upd \in SharedPeriodUpdates :
                Req_update_pay_period(user, pid, upd)
                => /\ budget_categories' = budget_categories
                   /\ transactions' = transactions
                   /\ Len(pay_periods') = Len(pay_periods)
                   /\ \A p \in PeriodIds \ {pid} :
                          pay_periods'[p] = pay_periods[p]
                   /\ pid \in PeriodIds
                        => /\ pay_periods'[pid].user_id = pay_periods[pid].user_id
                           /\ pay_periods'[pid].start_date
                                  = pay_periods[pid].start_date
                           /\ pay_periods'[pid].end_date = pay_periods[pid].end_date
                           /\ pay_periods'[pid].frequency
                                  = pay_periods[pid].frequency
                           /\ upd.status = None
                                => pay_periods'[pid].status = pay_periods[pid].status
                           /\ upd.total_income = None
                                => pay_periods'[pid].total_income
                                       = pay_periods[pid].total_income]_vars

\* the income of the second period of a user was edited while the user's
\* first period, a category and a transaction existed
C16_Witness ==
    /\ last.op = "update_pay_period"
    /\ last.ret.pay_period = Some(2)
    /\ pay_periods[2].total_income = 2
    /\ pay_periods[1].user_id = pay_periods[2].user_id
    /\ pay_periods[1].total_income = 3
    /\ DOMAIN transactions # {}

(***************************************************************************)
(* Ownership.                                                              *)
(***************************************************************************)

\* period p does not exist or belongs to another user
PeriodNotOwned(user, p) == p \notin PeriodIds \/ pay_periods[p].user_id # user

\* category c does not exist or belongs to another user
CategoryNotOwned(user, c) == c \notin CategoryIds \/ CategoryOwner(c) # user

\* transaction t does not exist or belongs to another user
TransactionNotOwned(user, t) ==
    t \notin DOMAIN transactions \/ TransactionOwner(t) # user

\* the answers to requests on periods, categories and transactions of
\* another user, spending_summary left aside
IsolationOfStep ==
    /\ last'.op = "get_pay_period"
         => \A user \in Users, p \in 1..MaxPayPeriods :
               (Req_get_pay_period(user, p) /\ PeriodNotOwned(user, p))
               => ResponseCode(last') = 404
    /\ last'.op = "update_pay_period"
         => \A user \in Users, p \in 1..MaxPayPeriods,
               upd \in SharedPeriodUpdates :
               (Req_update_pay_period(user, p, upd) /\ PeriodNotOwned(user, p))
               => ResponseCode(last') = 404
    /\ last'.op = "allocate_budget"
         => \A user \in Users, req \in SharedAllocations :
               (/\ Req_allocate_budget(user, req)
                /\ PeriodNotOwned(user, req.pay_period_id))
               => ResponseCode(last') = 404
    /\ last'.op = "get_period_summary"
         => \A user \in Users, p \in 1..MaxPayPeriods :
               (Req_get_period_summary(user, p) /\ PeriodNotOwned(user, p))
               => ResponseCode(last') = 404
    /\ last'.op = "create_transaction"
         => \A user \in Users, data \in SharedCreates :
               (/\ Req_create_transaction(user, data)
                /\ CategoryNotOwned(user, data.budget_category_id))
               => ResponseCode(last') = 404
    /\ last'.op = "get_transaction"
         => \A user \in Users, t \in 1..MaxTransactions :
               (Req_get_transaction(user, t) /\ TransactionNotOwned(user, t))
               => ResponseCode(last') = 404
    /\ last'.op = "update_transaction"
         => \A user \in Users, t \in 1..MaxTransactions, upd \in SharedPatches :
               (Req_update_transaction(user, t, upd) /\ TransactionNotOwned(user, t))
               => ResponseCode(last') = 404
    /\ last'.op = "delete_transaction"
         => \A user \in Users, t \in 1..MaxTransactions :
               (Req_delete_transaction(user, t) /\ TransactionNotOwned(user, t))
               => ResponseCode(last') = 404

\* the answer to spending_summary on a period that belongs to another user
IsolationOfSpendingSummary ==
    last'.op = "get_spending_summary"
    => \A user \in Users, p \in 1..MaxPayPeriods :
          (/\ Req_get_spending_summary(user, p)
           /\ p \in PeriodIds
           /\ pay_periods[p].user_id # user)
          => ResponseCode(last') = 404

\* C17: every request of a user on a period, category or transaction that
\* belongs to another user (get period, update_period, allocate,
\* period_summary, spending_summary, create_transaction on the category,
\* get, update, delete transaction) is answered NotFound, as for an id
\* that does not exist.
C17_OwnershipIsolation ==
    [][IsolationOfStep /\ IsolationOfSpendingSummary]_vars

\* the part of C17 that leaves spending_summary aside
C17_IsolationButSpendingSummary == [][IsolationOfStep]_vars

\* spending_summary answers a request on a period of another user, or on
\* no period, with an empty list, and a request on an own period with one
\* row per category
C17_SpendingSummaryEmpty ==
    [][last'.op = "get_spending_summary"
       => \A user \in Users, p \in 1..MaxPayPeriods :
             Req_get_spending_summary(user, p)
             => /\ ResponseCode(last') = 200
                /\ PeriodNotOwned(user, p) <=> last'.ret.summary = <<>>]_vars

\* user 2 was refused a period, a category and a transaction of user 1
C17_WitnessRefused ==
    /\ last.user = 2
    /\ last.op \in {"get_pay_period", "create_transaction", "delete_transaction"}
    /\ ResponseCode(last) = 404
    /\ Len(pay_periods) = MaxPayPeriods
    /\ \A p \in PeriodIds : pay_periods[p].user_id = 1
    /\ DOMAIN transactions # {}

\* the rows the reads of user may show: what user owns
C18_ReadsScoped ==
    \A user \in Users :
        LET own_periods == {p \in PeriodIds : pay_periods[p].user_id = user}
            own_categories == {c \in CategoryIds : CategoryOwner(c) = user}
            own_transactions ==
                {t \in DOMAIN transactions : TransactionOwner(t) = user}
            analytics == get_spending_analytics(Store, user)
        IN  /\ \A f \in {None} \cup {Some(st) : st \in Statuses} :
                  LET listed == get_user_pay_periods(Store, user, f)
                  IN  {listed[i] : i \in 1..Len(listed)} \subseteq own_periods
            /\ \A pf \in {None} \cup {Some(p) : p \in 1..MaxPayPeriods},
                  cf \in {None} \cup {Some(c) : c \in 1..MaxCategories} :
                  get_user_transactions(Store, user, pf, cf)
                      \subseteq own_transactions
            /\ \A p \in 1..MaxPayPeriods :
                  LET summary == get_period_summary(Store, user, p)
                      rows == get_spending_summary(Store, user, p)
                  IN  /\ summary # None
                           => /\ p \in own_periods
                              /\ \A i \in 1..Len(summary[1].categories_summary) :
                                     summary[1].categories_summary[i].category.id
                                         \in own_categories
                              /\ summary[1].total_spent
                                     = SumAmounts({t \in own_transactions :
                                           transactions[t].pay_period_id = p})
                      /\ \A i \in 1..Len(rows) :
                             /\ rows[i].category_id \in own_categories
                             /\ rows[i].total_spent
                                    = SumAmounts(TransactionsOf(rows[i].category_id))
            /\ analytics.total_periods = Cardinality(own_periods)
            /\ analytics.total_spent = SumAmounts(own_transactions)
            /\ \A g \in analytics.top_categories :
                  /\ \E c \in own_categories : budget_categories[c].name = g.category
                  /\ g.total_spent <= SumAmounts(own_transactions)
            /\ own_periods = {} => analytics.total_income = 0

\* C18: no step taken with a user's identity changes (or removes) a
\* period, category or transaction of another user, whatever ids it is
\* given; and the period list, the transaction list, the summaries and the
\* analytics of a user show only rows and amounts of that user.
C18_NonInterference ==
    /\ []C18_ReadsScoped
    /\ [][LET user == last'.user
          IN  /\ \A p \in PeriodIds :
                     pay_periods[p].user_id # user
                     => /\ p <= Len(pay_periods')
                        /\ pay_periods'[p] = pay_periods[p]
              /\ \A c \in CategoryIds :
                     CategoryOwner(c) # user
                     => /\ c <= Len(budget_categories')
                        /\ budget_categories'[c] = budget_categories[c]
              /\ \A t \in DOMAIN transactions :
                     TransactionOwner(t) # user
                     => /\ t \in DOMAIN transactions'
                        /\ transactions'[t] = transactions[t]]_vars

\* user 2, who owns a period with a transaction, was refused a transaction
\* on the category of user 1, who owns a transaction too
C18_Witness ==
    /\ last.user = 2
    /\ last.op = "create_transaction"
    /\ last.status = "not_found"
    /\ \E t \in DOMAIN transactions : TransactionOwner(t) = 1
    /\ \E t \in DOMAIN transactions : TransactionOwner(t) = 2

(***************************************************************************)
(* C19 and C20: requests whose statements interleave.                      *)
(***************************************************************************)
\* the committed rows of every category add up
CommittedBalanced ==
    \A c \in CategoryIds :
        Remaining(c) = Allocated(c) - SumAmounts(TransactionsOf(c))

\* no request is under way
Quiescent == \A w \in Workers : sessions[w] = Idle

\* C19: atomic visibility.  While create_transaction requests and readers
\* interleave, the transaction row and the adjustment of remaining_amount
\* are committed together: at every step the committed remaining_amount of
\* every category is allocated_amount minus the sum of its committed
\* transactions.
C19_AtomicVisibility == CommittedBalanced

\* C19, the reader's side: every period summary a reader gets shows, for
\* each category, a remaining_amount that is allocated minus spent.
C19_ReaderSeesBalanced ==
    (last.op = "get_period_summary" /\ last.ret.summary # None) =>
        LET rows == last.ret.summary[1].categories_summary
        IN  \A i \in 1..Len(rows) :
                rows[i].category.remaining_amount
                    = rows[i].allocated - rows[i].spent

\* C19: a reader closed its session between the UPDATE and the INSERT of
\* one create_transaction; the transaction is committed and the category
\* still has all of its allocation.
C19_ReaderBrokeCommit ==
    /\ Quiescent
    /\ last.op = "create_transaction" /\ last.status = "ok"
    /\ Cardinality(TransactionIds(Store)) = 1
    /\ \E c \in CategoryIds :
           /\ TransactionsOf(c) # {}
           /\ Remaining(c) = Allocated(c)

\* C20: no lost update.  Once the create_transaction requests that ran at
\* the same time are all over, the remaining_amount of every category
\* reflects every transaction that was persisted, and is not negative.
C20_NoLostUpdate ==
    Quiescent =>
        /\ CommittedBalanced
        /\ \A c \in CategoryIds : Remaining(c) >= 0

\* C20: both requests answered 201, two transactions of 1 are persisted
\* and the category of 2 still has 1.
C20_LostUpdate ==
    /\ Quiescent
    /\ last.op = "create_transaction" /\ last.status = "ok"
    /\ \E c \in CategoryIds :
           /\ Cardinality(TransactionsOf(c)) = 2
           /\ \A t \in TransactionsOf(c) : transactions[t].amount = 1
           /\ Allocated(c) = 2
           /\ Remaining(c) = 1

(***************************************************************************)
(* C21: what period_summary reports.                                       *)
(***************************************************************************)
\* the amounts of the transactions of category c in db, added up by amount
RECURSIVE SpentUpTo(_, _, _)
SpentUpTo(db, c, a) ==
    IF a = 0 THEN 0
    ELSE a * Cardinality({t \in DOMAIN db.transactions :
                            /\ db.transactions[t].budget_category_id = c
                            /\ db.transactions[t].amount = a})
         + SpentUpTo(db, c, a - 1)

SpentIn(db, c) == SpentUpTo(db, c, SetMax(Amounts))

\* summary is what the claim says of period p in db
SummaryAsClaimed(db, p, summary) ==
    LET rows == summary.categories_summary
        cats == {c \in 1..Len(db.budget_categories) :
                    db.budget_categories[c].pay_period_id = p}
    IN  /\ {rows[i].category.id : i \in 1..Len(rows)} = cats
        /\ Len(rows) = Cardinality(cats)
        /\ \A i \in 1..Len(rows) :
               LET c == rows[i].category.id
               IN  /\ rows[i].allocated = db.budget_categories[c].allocated_amount
                   /\ rows[i].spent = SpentIn(db, c)
                   /\ rows[i].remaining = rows[i].allocated - rows[i].spent
        /\ summary.total_allocated = TotalOf(rows, "allocated", Len(rows))
        /\ summary.total_spent = TotalOf(rows, "spent", Len(rows))
        /\ summary.total_remaining
               = summary.total_allocated - summary.total_spent

\* worker w has just run the statements of a period_summary request
SummaryRead(w) ==
    /\ sessions[w] = Idle
    /\ sessions'[w].pc = "close"
    /\ sessions'[w].op = "get_period_summary"

\* C21: a period_summary of a period of the caller reports, for each
\* category of the period, spent = the sum of its transactions and
\* remaining = allocated - spent, and totals that are the sums of the rows,
\* whatever the stored remaining_amount of the categories is.
C21_SummaryComputed ==
    [][\A w \in Workers :
          (SummaryRead(w) /\ sessions'[w].ret.summary # None) =>
              SummaryAsClaimed(View, 1, sessions'[w].ret.summary[1])]_vars

\* C21: a summary went out that shows money spent in both categories, one
\* of them with a stored remaining_amount that is not allocated - spent
C21_Witness ==
    /\ last.op = "get_period_summary" /\ last.ret.summary # None
    /\ LET rows == last.ret.summary[1].categories_summary
       IN  /\ Len(rows) = 2
           /\ \A i \in 1..2 : rows[i].spent > 0
           /\ \E i \in 1..2 :
                  rows[i].category.remaining_amount # rows[i].remaining
           /\ last.ret.summary[1].total_spent
                  = rows[1].spent + rows[2].spent
           /\ last.ret.summary[1].total_remaining
                  = 3 - last.ret.summary[1].total_spent

\* C21, serialized: in every state of the ledger, the summary of each
\* period for its owner is the one the claim describes, and the summary for
\* anybody else is absent.
C21_SummaryOfStore ==
    \A user \in Users, p \in 1..MaxPayPeriods :
        LET summary == get_period_summary(Store, user, p)
        IN  IF p \in 1..Len(pay_periods) /\ pay_periods[p].user_id = user
            THEN summary # None /\ SummaryAsClaimed(Store, p, summary[1])
            ELSE summary = None

(***************************************************************************)
(* C22: delete_transaction of a transaction that is absent or not owned.   *)
(***************************************************************************)
\* C22: delete_transaction of an id that does not exist, or of a
\* transaction of another user, returns false without an error and leaves
\* every row of the store as it was.
C22_DeleteNotFound ==
    [][\A user \in Users, tid \in 1..MaxTransactions :
          (/\ last'.op = "delete_transaction"
           /\ Req_delete_transaction(user, tid)
           /\ \/ tid \notin DOMAIN transactions
              \/ TransactionOwner(tid) # user)
          => /\ last'.status = "ok"
             /\ last'.ret.deleted = FALSE
             /\ transactions' = transactions
             /\ budget_categories' = budget_categories
             /\ pay_periods' = pay_periods]_vars

\* user 2 asked to delete a transaction of user 1 (every id is one) and got
\* false; both transactions are still there and their category has paid
\* for them
C22_Witness ==
    /\ last.op = "delete_transaction" /\ last.user = 2
    /\ last.status = "ok" /\ last.ret.deleted = FALSE
    /\ DOMAIN transactions = 1..MaxTransactions
    /\ \A t \in DOMAIN transactions : TransactionOwner(t) = 1
    /\ \E c \in CategoryIds : Remaining(c) < Allocated(c)

\* user 1 asked to delete an id that is not there
C22_WitnessAbsent ==
    /\ last.op = "delete_transaction" /\ last.user = 1
    /\ last.ret.deleted = FALSE
    /\ DOMAIN transactions = {1}

(***************************************************************************)
(* C23: create_pay_period called twice in a row with the same arguments.   *)
(***************************************************************************)
\* the call before this state was create_pay_period(user, data), and it
\* created a period
JustCreated(user, data) ==
    /\ last.op = "create_pay_period" /\ last.status = "ok"
    /\ last.user = user
    /\ pay_periods[last.ret.id].user_id = user
    /\ pay_periods[last.ret.id].start_date = data.start_date
    /\ pay_periods[last.ret.id].frequency = data.frequency
    /\ pay_periods[last.ret.id].total_income = data.total_income

C24_BulkTaggedApi ==
    /\ [][\A user \in Users, bulk \in SourceBulks :
            (/\ last'.op = "bulk_create_transactions"
             /\ Req_bulk_create_transactions(user, bulk)
             /\ last'.status = "ok")
            => /\ Len(last'.ret.created) = Len(bulk)
               /\ \A i \in 1..Len(bulk) :
                      LET t == last'.ret.created[i]
                      IN  /\ t \in DOMAIN transactions' \ DOMAIN transactions
                          /\ transactions'[t].source = "api"
                          /\ transactions'[t].amount = bulk[i].amount]_vars
    /\ [][\A user \in Users, data \in SourceCreates :
            (/\ last'.op = "create_transaction"
             /\ Req_create_transaction(user, data)
             /\ last'.status = "ok")
            => /\ last'.ret.id \in DOMAIN transactions' \ DOMAIN transactions
               /\ transactions'[last'.ret.id].source = data.source]_vars

\* a bulk of two items went through and both rows say api, which no bulk
\* of this specification says of both its items unless it is <<api, api>>
C24_Witness ==
    /\ last.op = "bulk_create_transactions" /\ last.status = "ok"
    /\ Len(last.ret.created) = 2
    /\ \A t \in DOMAIN transactions : transactions[t].source = "api"

\* a create_transaction with source manual was stored as manual beside a
\* row of a bulk
C24_WitnessManual ==
    /\ last.op = "create_transaction" /\ last.status = "ok"
    /\ transactions[last.ret.id].source = "manual"
    /\ \E t \in DOMAIN transactions : transactions[t].source = "api"

(***************************************************************************)
(* C25: list_periods.                                                      *)
(***************************************************************************)
\* C25: list_periods returns the periods of the caller, those of the given
\* status when a filter is supplied, each once and no other, the one that
\* starts latest first.
C25_ListPeriods ==
    [][\A user \in Users, f \in ListFilters :
          (last'.op = "get_pay_periods" /\ Req_get_pay_periods(user, f))
          => LET listed == last'.ret.pay_periods
             IN  /\ {listed[i] : i \in 1..Len(listed)}
                        = {p \in PeriodIds :
                              /\ pay_periods[p].user_id = user
                              /\ f # None => pay_periods[p].status = f[1]}
                 /\ \A i \in 1..Len(listed), j \in 1..Len(listed) :
                        i # j => listed[i] # listed[j]
                 /\ \A i \in 1..Len(listed) - 1 :
                        ToOrdinal(pay_periods[listed[i]].start_date)
                            >= ToOrdinal(pay_periods[listed[i + 1]].start_date)
                 /\ pay_periods' = pay_periods]_vars

\* there are three periods; the caller got two of them, the one created
\* later (and starting later) first, and not the third, which is the
\* other user's
C25_Witness ==
    /\ last.op = "get_pay_periods"
    /\ Len(pay_periods) = 3
    /\ Len(last.ret.pay_periods) = 2
    /\ last.ret.pay_periods[1] > last.ret.pay_periods[2]
    /\ ToOrdinal(pay_periods[last.ret.pay_periods[1]].start_date)
           > ToOrdinal(pay_periods[last.ret.pay_periods[2]].start_date)
    /\ \E p \in PeriodIds : pay_periods[p].user_id # last.user

\* the caller has three periods, one of them completed, and got the two
\* active ones
C25_WitnessFiltered ==
    /\ last.op = "get_pay_periods"
    /\ Len(pay_periods) = 3
    /\ \A p \in PeriodIds : pay_periods[p].user_id = last.user
    /\ Len(last.ret.pay_periods) = 2
    /\ \A i \in 1..2 : pay_periods[last.ret.pay_periods[i]].status = "active"

(***************************************************************************)
(* C26: create_pay_period with initial categories, statement by statement. *)
(***************************************************************************)
\* the names of the committed categories of period p
CategoryNamesOf(p) == {budget_categories[c].name : c \in CategoriesOf(p)}

\* C26: a period that was created with the initial categories a and b is
\* never committed without both of them: the period and its initial
\* categories are persisted together.
C26_PeriodWithItsCategories ==
    \A p \in PeriodIds : CategoryNamesOf(p) = {"a", "b"}

\* C26: a reader got the period with fewer than its two initial categories
C26_ReaderSawPartial ==
    /\ last.op = "get_pay_period"
    /\ last.ret.pay_period # None
    /\ Cardinality(last.ret.budget_categories) < 2

\* C26: the call is over, it failed in the middle, and the period is left
\* with one of its two categories
C26_LeftPartial ==
    /\ Quiescent
    /\ last.op = "create_pay_period" /\ last.status = "invalid_request"
    /\ \E p \in PeriodIds : Cardinality(CategoriesOf(p)) = 1

(***************************************************************************)
(* C29: two create_pay_period calls at the same time.                      *)
(***************************************************************************)
\* C29: of the periods that create_pay_period calls running at the same
\* time have committed, no two of one user are active and share a day.
C29_NoOverlapAfterRace ==
    \A p \in PeriodIds, q \in PeriodIds :
        (/\ p < q
         /\ pay_periods[p].user_id = pay_periods[q].user_id
         /\ pay_periods[p].status = "active" /\ pay_periods[q].status = "active")
        => \/ ToOrdinal(pay_periods[p].end_date)
                 < ToOrdinal(pay_periods[q].start_date)
           \/ ToOrdinal(pay_periods[q].end_date)
                 < ToOrdinal(pay_periods[p].start_date)

\* C29: both calls are over, the last one answered 201, and two active
\* periods of user 1 with the same dates are committed
C29_BothSucceeded ==
    /\ Quiescent
    /\ last.op = "create_pay_period" /\ last.status = "ok"
    /\ Len(pay_periods) = 2
    /\ pay_periods[1] = pay_periods[2]

(***************************************************************************)
(* C27: the ranges of the amounts.                                         *)
(***************************************************************************)
\* C27: in every state that serialized requests reach, the remaining_amount
\* of every category lies between 0 and its allocated_amount, and the
\* amount of every transaction is positive.
C27_AmountsInRange ==
    /\ \A c \in CategoryIds :
           0 <= Remaining(c) /\ Remaining(c) <= Allocated(c)
    /\ \A t \in DOMAIN transactions : transactions[t].amount > 0

\* a category is spent to the last cent and a request with an amount that
\* is not positive has just been turned down
C27_Witness ==
    /\ last.status = "validation_error"
    /\ \E c \in CategoryIds :
           /\ Allocated(c) > 0
           /\ Remaining(c) = 0
           /\ TransactionsOf(c) # {}

\* a transaction was made smaller or deleted and its category has all of
\* its allocation again or part of it
C27_WitnessRestored ==
    /\ last.op \in {"update_transaction", "delete_transaction"}
    /\ last.status = "ok"
    /\ \E c \in CategoryIds :
           /\ Remaining(c) = Allocated(c) - 1
           /\ TransactionsOf(c) # {}

FindsNothing(db, tid) ==
    \A user \in Users :
        LET d == delete_transaction(OpenSession(db), user, tid)
            u == update_transaction(OpenSession(db), user, tid,
                                    [amount |-> Some(1), description |-> None])
        IN  /\ d.status = "ok" /\ d.ret.deleted = FALSE
            /\ d.s.durable = db
            /\ u.status = "ok" /\ u.ret.transaction = None
            /\ u.s.durable = db

\* the stores a later call may find: db itself, and db after one more
\* create_transaction of the owner of the periods
LaterStores(db) ==
    {db} \cup {create_transaction(OpenSession(db), 1, data).s.durable :
                  data \in TransactionCreate}

\* delete_transaction(user, tid) has just succeeded
Deleted(user, tid) ==
    /\ last'.op = "delete_transaction"
    /\ Req_delete_transaction(user, tid)
    /\ last'.ret.deleted

\* C30: once delete_transaction has succeeded for a transaction, every
\* later delete_transaction and update_transaction with its id finds
\* nothing and leaves every remaining_amount as it is, also after other
\* requests have been served in between.
C30_DeletedStaysGone ==
    [][\A user \in Users, tid \in 1..MaxTransactions :
          Deleted(user, tid)
          => \A db \in LaterStores(Store') : FindsNothing(db, tid)]_vars

\* C30, as far as it goes: right after a successful delete_transaction, and
\* for as long as no transaction is created, a delete_transaction or
\* update_transaction with the same id finds nothing and writes nothing; so
\* does any call with an id that no transaction has.
C30_GoneUntilCreate ==
    /\ [][\A user \in Users, tid \in 1..MaxTransactions :
            Deleted(user, tid) => FindsNothing(Store', tid)]_vars
    /\ [](\A tid \in 1..MaxTransactions :
             tid \notin DOMAIN transactions => FindsNothing(Store, tid))

====
